---- MODULE Spec2Model ----
(***************************************************************************)
(* Lunalytics operator: the monitor reconciliation engine.                 *)
(*                                                                         *)
(* Program strings (annotation values, URLs, names, monitor ids) are       *)
(* sequences of one-character strings, so that lower(), split(), int()     *)
(* and the regular expressions of the code are computed, not assumed.      *)
(* Dictionaries are functions whose domain is the set of keys present.     *)
(***************************************************************************)
EXTENDS Integers, Sequences, FiniteSets, TLC

VARIABLES
    config,     \* src/config.py: the flat configuration the handlers read
    resources,  \* the cluster: per identity, its annotations, spec and status
    monitors,   \* the external system: monitor id -> identity it was created for
    next_id,    \* the external system: number of monitor ids handed out
    task,       \* per identity, the handler coroutine in flight (or idle)
    ev,         \* per identity, what the current / last event has done
    retry,      \* one call of a client method seen alone: the locals of
                \* src/utils/retry.py wrapper() and what it has done so far
    probe       \* one call of a function without side effects seen alone:
                \* its arguments and what it returned

vars == <<config, resources, monitors, next_id, task, ev, retry, probe>>

-----------------------------------------------------------------------------
(* Bounds of the model *)

\* events delivered in one behaviour
MaxEvents == 2
\* monitor ids the external system hands out in one behaviour
MaxMonitors == 2

-----------------------------------------------------------------------------
(* Python values *)

\* None, as a value that is comparable with every string and equal to none
None == <<"None">>

EmptyDict == [k \in {} |-> None]

Get(d, k, default) == IF k \in DOMAIN d THEN d[k] ELSE default

\* truth value of an Optional[str]: None and "" are falsy
Truthy(s) == s # None /\ s # <<>>

LowerAlpha ==
    <<"a","b","c","d","e","f","g","h","i","j","k","l","m",
      "n","o","p","q","r","s","t","u","v","w","x","y","z">>

UpperAlpha ==
    <<"A","B","C","D","E","F","G","H","I","J","K","L","M",
      "N","O","P","Q","R","S","T","U","V","W","X","Y","Z">>

DigitChars == <<"0","1","2","3","4","5","6","7","8","9">>

lower_char(c) ==
    IF \E i \in 1..26 : UpperAlpha[i] = c
    THEN LowerAlpha[CHOOSE i \in 1..26 : UpperAlpha[i] = c]
    ELSE c

upper_char(c) ==
    IF \E i \in 1..26 : LowerAlpha[i] = c
    THEN UpperAlpha[CHOOSE i \in 1..26 : LowerAlpha[i] = c]
    ELSE c

\* str.lower()
lower(s) == [i \in 1..Len(s) |-> lower_char(s[i])]

\* str.upper()
upper(s) == [i \in 1..Len(s) |-> upper_char(s[i])]

\* str.startswith(p)
startswith(s, p) == Len(s) >= Len(p) /\ SubSeq(s, 1, Len(p)) = p

\* sub in s
contains(s, sub) ==
    \E i \in 1..(Len(s) - Len(sub) + 1) : SubSeq(s, i, i + Len(sub) - 1) = sub

IsDigit(c) == \E i \in 1..10 : DigitChars[i] = c

DigitVal(c) == (CHOOSE i \in 1..10 : DigitChars[i] = c) - 1

RECURSIVE lstrip(_)
lstrip(s) == IF s # <<>> /\ Head(s) = " " THEN lstrip(Tail(s)) ELSE s

RECURSIVE rstrip(_)
rstrip(s) ==
    IF s # <<>> /\ s[Len(s)] = " " THEN rstrip(SubSeq(s, 1, Len(s) - 1)) ELSE s

\* str.strip()
strip(s) == rstrip(lstrip(s))

RECURSIVE split(_, _)
\* str.split(sep) for a one-character separator
split(s, sep) ==
    IF \E i \in 1..Len(s) : s[i] = sep
    THEN LET i == CHOOSE j \in 1..Len(s) :
                     s[j] = sep /\ \A k \in 1..(j - 1) : s[k] # sep
         IN  <<SubSeq(s, 1, i - 1)>> \o split(SubSeq(s, i + 1, Len(s)), sep)
    ELSE <<s>>

AllDigits(s) == s # <<>> /\ \A i \in 1..Len(s) : IsDigit(s[i])

RECURSIVE DigitsValue(_)
DigitsValue(s) ==
    IF s = <<>> THEN 0
    ELSE 10 * DigitsValue(SubSeq(s, 1, Len(s) - 1)) + DigitVal(s[Len(s)])

\* whether int(s) returns (no ValueError): optional blanks, optional sign, digits
IsIntLiteral(s) ==
    LET t == strip(s)
    IN  IF t # <<>> /\ Head(t) \in {"+", "-"} THEN AllDigits(Tail(t)) ELSE AllDigits(t)

\* int(s), for s with IsIntLiteral(s)
ParseInt(s) ==
    LET t == strip(s)
    IN  IF Head(t) = "-" THEN 0 - DigitsValue(Tail(t))
        ELSE IF Head(t) = "+" THEN DigitsValue(Tail(t))
        ELSE DigitsValue(t)

RECURSIVE FormatNat(_)
\* str(n) for n >= 0
FormatNat(n) ==
    IF n < 10 THEN <<DigitChars[n + 1]>>
    ELSE FormatNat(n \div 10) \o <<DigitChars[(n % 10) + 1]>>

\* re.match(r'^\d{3}(-\d{3})?$', code)
StatusCodeMatches(code) ==
    \/ Len(code) = 3 /\ AllDigits(code)
    \/ /\ Len(code) = 7
       /\ AllDigits(SubSeq(code, 1, 3))
       /\ code[4] = "-"
       /\ AllDigits(SubSeq(code, 5, 7))

-----------------------------------------------------------------------------
(* src/utils/annotations.py *)

ANNOTATION_ENABLED == "lunalytics.io/enabled"
ANNOTATION_NAME == "lunalytics.io/name"
ANNOTATION_URL == "lunalytics.io/url"
ANNOTATION_INTERVAL == "lunalytics.io/interval"
ANNOTATION_RETRY_INTERVAL == "lunalytics.io/retry-interval"
ANNOTATION_REQUEST_TIMEOUT == "lunalytics.io/request-timeout"
ANNOTATION_METHOD == "lunalytics.io/method"
ANNOTATION_VALID_STATUS_CODES == "lunalytics.io/valid-status-codes"
ANNOTATION_MONITOR_ID == "lunalytics.io/monitor-id"

STR_true == <<"t","r","u","e">>

\* a variant of is_monitoring_enabled that takes a resource without the
\* annotation, or with any value but "false", as enabled
is_monitoring_enabled_unless_false(annotations) ==
    lower(Get(annotations, ANNOTATION_ENABLED, <<>>)) # <<"f","a","l","s","e">>

is_monitoring_enabled(annotations) ==
    lower(Get(annotations, ANNOTATION_ENABLED, <<>>)) = STR_true

get_monitor_name(annotations, resource_name, resource_kind) ==
    IF Truthy(Get(annotations, ANNOTATION_NAME, None))
    THEN annotations[ANNOTATION_NAME]
    ELSE resource_kind \o <<"/">> \o resource_name

\* one numeric annotation: the field is set only when int() succeeds
NumericField(annotations, key, field) ==
    IF Truthy(Get(annotations, key, None)) /\ IsIntLiteral(annotations[key])
    THEN field :> ParseInt(annotations[key])
    ELSE EmptyDict

get_monitor_config_from_annotations(annotations) ==
    (IF Truthy(Get(annotations, ANNOTATION_URL, None))
     THEN "url" :> annotations[ANNOTATION_URL] ELSE EmptyDict)
    @@ NumericField(annotations, ANNOTATION_INTERVAL, "interval")
    @@ NumericField(annotations, ANNOTATION_RETRY_INTERVAL, "retry_interval")
    @@ NumericField(annotations, ANNOTATION_REQUEST_TIMEOUT, "request_timeout")
    @@ (IF Truthy(Get(annotations, ANNOTATION_METHOD, None))
        THEN "method" :> upper(annotations[ANNOTATION_METHOD]) ELSE EmptyDict)
    @@ (IF Truthy(Get(annotations, ANNOTATION_VALID_STATUS_CODES, None))
        THEN LET parts == split(annotations[ANNOTATION_VALID_STATUS_CODES], ",")
             IN  "valid_status_codes" :> [i \in 1..Len(parts) |-> strip(parts[i])]
        ELSE EmptyDict)

get_monitor_id_from_annotations(annotations) ==
    Get(annotations, ANNOTATION_MONITOR_ID, None)

create_monitor_id_annotation(monitor_id) == ANNOTATION_MONITOR_ID :> monitor_id

\* merged = defaults.copy(); merged.update(annotation_config)
\* (the key str_typed of a dict names the fields whose value is a Python str
\* where an int is expected; a value set from annotation_config is an int)
merge_with_defaults(annotation_config) ==
    LET defaults == config.monitor_defaults
    IN  IF "str_typed" \in DOMAIN defaults
        THEN annotation_config
             @@ ("str_typed" :> (defaults["str_typed"] \ DOMAIN annotation_config))
             @@ defaults
        ELSE annotation_config @@ defaults

valid_methods ==
    { <<"G","E","T">>, <<"P","O","S","T">>, <<"P","U","T">>,
      <<"D","E","L","E","T","E">>, <<"P","A","T","C","H">>,
      <<"H","E","A","D">>, <<"O","P","T","I","O","N","S">> }

\* value is not None and (not isinstance(value, int) or value < 1)
NumericErrors(config_dict, field) ==
    IF /\ field \in DOMAIN config_dict
       /\ \/ field \in Get(config_dict, "str_typed", {})
          \/ config_dict[field] < 1
    THEN <<field>> ELSE <<>>

RECURSIVE StatusCodeErrors(_)
StatusCodeErrors(codes) ==
    IF codes = <<>> THEN <<>>
    ELSE (IF StatusCodeMatches(Head(codes)) THEN <<>> ELSE <<"status_code">>)
         \o StatusCodeErrors(Tail(codes))

\* the list of errors, one tag per message of the code
validate_monitor_config(config_dict) ==
    (IF ~Truthy(Get(config_dict, "url", None)) THEN <<"url">> ELSE <<>>)
    \o (IF ~Truthy(Get(config_dict, "name", None)) THEN <<"name">> ELSE <<>>)
    \o NumericErrors(config_dict, "interval")
    \o NumericErrors(config_dict, "retry_interval")
    \o NumericErrors(config_dict, "request_timeout")
    \o (LET method == upper(Get(config_dict, "method", <<>>))
        IN  IF method # <<>> /\ method \notin valid_methods
            THEN <<"method">> ELSE <<>>)
    \o StatusCodeErrors(Get(config_dict, "valid_status_codes", <<>>))

-----------------------------------------------------------------------------
(* src/utils/url_builder.py *)

STR_http == <<"h","t","t","p">>
STR_https == <<"h","t","t","p","s">>
STR_ssl == <<"s","s","l">>
STR_tls == <<"t","l","s">>
STR_tcp == <<"t","c","p">>
STR_udp == <<"u","d","p">>
STR_scheme_sep == <<":","/","/">>
STR_svc_suffix ==
    <<".","s","v","c",".","c","l","u","s","t","e","r",".","l","o","c","a","l",":">>

\* a derivation that takes the presence of the tls key for a TLS block
build_ingress_url_tls_key(ingress_spec) ==
    LET rules == Get(ingress_spec, "rules", <<>>)
    IN  IF rules = <<>> THEN None
        ELSE LET first_rule == rules[1]
                 host == Get(first_rule, "host", None)
                 http_paths == Get(Get(first_rule, "http", EmptyDict), "paths", <<>>)
             IN  IF ~Truthy(host) THEN None
                 ELSE IF http_paths = <<>> THEN None
                 ELSE LET path == Get(http_paths[1], "path", <<"/">>)
                          protocol == IF "tls" \in DOMAIN ingress_spec
                                      THEN STR_https ELSE STR_http
                      IN  protocol \o STR_scheme_sep \o host \o path

build_ingress_url(ingress_spec) ==
    LET rules == Get(ingress_spec, "rules", <<>>)
    IN  IF rules = <<>> THEN None
        ELSE LET first_rule == rules[1]
                 host == Get(first_rule, "host", None)
                 http_paths == Get(Get(first_rule, "http", EmptyDict), "paths", <<>>)
             IN  IF ~Truthy(host) THEN None
                 ELSE IF http_paths = <<>> THEN None
                 ELSE LET path == Get(http_paths[1], "path", <<"/">>)
                          tls == Get(ingress_spec, "tls", <<>>)
                          protocol == IF tls # <<>> THEN STR_https ELSE STR_http
                      IN  protocol \o STR_scheme_sep \o host \o path

\* a derivation that looks for the hint in the port name as it is written
build_service_url_case_sensitive(service_spec, service_name, namespace) ==
    LET ports == Get(service_spec, "ports", <<>>)
    IN  IF ports = <<>> THEN None
        ELSE LET first_port == ports[1]
             IN  IF "port" \notin DOMAIN first_port \/ first_port["port"] = 0 THEN None
                 ELSE LET port_name == Get(first_port, "name", <<>>)
                          protocol ==
                              IF \/ contains(port_name, STR_https)
                                 \/ contains(port_name, STR_ssl)
                                 \/ contains(port_name, STR_tls)
                              THEN STR_https ELSE STR_http
                      IN  protocol \o STR_scheme_sep \o service_name \o <<".">>
                          \o namespace \o STR_svc_suffix
                          \o FormatNat(first_port["port"]) \o <<"/">>

build_service_url(service_spec, service_name, namespace) ==
    LET ports == Get(service_spec, "ports", <<>>)
    IN  IF ports = <<>> THEN None
        ELSE LET first_port == ports[1]
             IN  IF "port" \notin DOMAIN first_port \/ first_port["port"] = 0 THEN None
                 ELSE LET port_name == lower(Get(first_port, "name", <<>>))
                          protocol ==
                              IF \/ contains(port_name, STR_https)
                                 \/ contains(port_name, STR_ssl)
                                 \/ contains(port_name, STR_tls)
                              THEN STR_https ELSE STR_http
                      IN  protocol \o STR_scheme_sep \o service_name \o <<".">>
                          \o namespace \o STR_svc_suffix
                          \o FormatNat(first_port["port"]) \o <<"/">>

\* a variant of build_monitor_url that derives the URL from the spec first and
\* falls back to the explicit URL
build_monitor_url_derives_first(resource_spec, resource_type, resource_name, namespace, explicit_url) ==
    LET derived == IF resource_type = "ingress" THEN build_ingress_url(resource_spec)
                   ELSE IF resource_type = "service"
                   THEN build_service_url(resource_spec, resource_name, namespace)
                   ELSE None
    IN  IF derived # None THEN derived ELSE explicit_url

build_monitor_url(resource_spec, resource_type, resource_name, namespace, explicit_url) ==
    IF Truthy(explicit_url) THEN explicit_url
    ELSE IF resource_type = "ingress" THEN build_ingress_url(resource_spec)
    ELSE IF resource_type = "service"
         THEN build_service_url(resource_spec, resource_name, namespace)
    ELSE None

-----------------------------------------------------------------------------
(* src/lunalytics/models.py *)

MaxNameLength == 255
MaxInterval == 86400
MaxRequestTimeout == 300

monitor_types == { STR_http, STR_https, STR_tcp, STR_udp }

\* whether MonitorCreate(**monitor_config) is constructed (no ValidationError)
MonitorCreate(monitor_config) ==
    /\ {"name", "url"} \subseteq DOMAIN monitor_config
    /\ monitor_config["name"] # None
    /\ Len(monitor_config["name"]) \in 1..MaxNameLength
    /\ monitor_config["url"] # None
    /\ \/ startswith(monitor_config["url"], STR_http \o STR_scheme_sep)
       \/ startswith(monitor_config["url"], STR_https \o STR_scheme_sep)
    /\ Get(monitor_config, "type", STR_http) \in monitor_types
    /\ Get(monitor_config, "method", <<"G","E","T">>) \in valid_methods
    /\ StatusCodeErrors(Get(monitor_config, "valid_status_codes", <<>>)) = <<>>
    /\ Get(monitor_config, "interval", 30) \in 1..MaxInterval
    /\ Get(monitor_config, "retry_interval", 30) \in 1..MaxInterval
    /\ Get(monitor_config, "request_timeout", 30) \in 1..MaxRequestTimeout

\* the keyword arguments both handlers pass to MonitorUpdate: the stored id as
\* monitor_id, and every field of the desired spec but url
MonitorUpdateKwargs(existing_monitor_id, monitor_config) ==
    ("monitor_id" :> existing_monitor_id)
    @@ [k \in DOMAIN monitor_config \ {"url"} |-> monitor_config[k]]

\* whether MonitorUpdate(**kwargs) is constructed: monitorId (the alias; the model
\* does not allow population by field name), name and url are required fields
MonitorUpdate(kwargs) ==
    /\ {"monitorId", "name", "url"} \subseteq DOMAIN kwargs
    /\ Len(kwargs["name"]) \in 1..MaxNameLength
    /\ \/ startswith(kwargs["url"], STR_http \o STR_scheme_sep)
       \/ startswith(kwargs["url"], STR_https \o STR_scheme_sep)
    /\ Get(kwargs, "type", STR_http) \in monitor_types
    /\ Get(kwargs, "method", <<"G","E","T">>) \in valid_methods
    /\ StatusCodeErrors(Get(kwargs, "valid_status_codes", <<>>)) = <<>>
    /\ Get(kwargs, "interval", 30) \in 1..MaxInterval
    /\ Get(kwargs, "retry_interval", 30) \in 1..MaxInterval
    /\ Get(kwargs, "request_timeout", 30) \in 1..MaxRequestTimeout

-----------------------------------------------------------------------------
(* src/config.py *)

\* a filter that lets every namespace through when it does not know the strategy
is_namespace_monitored_fail_open(namespace, namespace_annotations) ==
    LET filter_config == config.namespace_filter
        strategy == Get(filter_config, "strategy", "all")
    IN  IF strategy = "list"
        THEN \E i \in 1..Len(Get(filter_config, "namespaces", <<>>)) :
                 filter_config["namespaces"][i] = namespace
        ELSE IF strategy = "annotation"
             THEN /\ namespace_annotations # EmptyDict
                  /\ Get(filter_config, "annotation_key", ANNOTATION_ENABLED)
                         \in DOMAIN namespace_annotations
                  /\ namespace_annotations[Get(filter_config, "annotation_key",
                                               ANNOTATION_ENABLED)]
                         = Get(filter_config, "annotation_value", STR_true)
        ELSE TRUE

\* Config.is_namespace_monitored(namespace, namespace_annotations=None); a
\* namespace_annotations of None is the empty dict here (both are falsy)
is_namespace_monitored(namespace, namespace_annotations) ==
    LET filter_config == config.namespace_filter
        strategy == Get(filter_config, "strategy", "all")
    IN  IF strategy = "all" THEN TRUE
        ELSE IF strategy = "list"
             THEN \E i \in 1..Len(Get(filter_config, "namespaces", <<>>)) :
                      filter_config["namespaces"][i] = namespace
        ELSE IF strategy = "annotation"
             THEN IF namespace_annotations = EmptyDict THEN FALSE
                  ELSE LET annotation_key ==
                               Get(filter_config, "annotation_key", ANNOTATION_ENABLED)
                           annotation_value ==
                               Get(filter_config, "annotation_value", STR_true)
                       IN  /\ annotation_key \in DOMAIN namespace_annotations
                           /\ namespace_annotations[annotation_key] = annotation_value
        ELSE FALSE

\* a handler that reads the annotations of the resource's namespace and
\* passes them to the filter
handler_namespace_annotations_fetched(res) == res.namespace_annotations

\* the namespace_annotations argument of config.is_namespace_monitored(namespace)
\* as the create/update handlers call it: omitted, so the default None
handler_namespace_annotations(res) == EmptyDict

\* Config.monitor_defaults when the configuration sets none
builtin_monitor_defaults ==
    [ type |-> STR_http,
      method |-> <<"G","E","T">>,
      interval |-> 30,
      retry_interval |-> 30,
      request_timeout |-> 30,
      valid_status_codes |-> << <<"2","0","0","-","2","9","9">> >> ]

\* Config._load_monitor_defaults: the MONITOR_DEFAULT_<KEY> variables of the
\* environment (environ maps key to the text of the variable); each value is
\* stored as the str it is, valid_status_codes split at the commas
_load_monitor_defaults(environ) ==
    LET keys == { k \in {"type", "method", "interval", "retry_interval",
                         "request_timeout"} : Truthy(Get(environ, k, None)) }
        numeric == keys \cap {"interval", "retry_interval", "request_timeout"}
        values == [ k \in keys |->
                      IF k \in numeric
                      THEN (IF IsIntLiteral(environ[k]) THEN ParseInt(environ[k]) ELSE 0)
                      ELSE environ[k] ]
        codes == IF Truthy(Get(environ, "valid_status_codes", None))
                 THEN LET parts == split(environ["valid_status_codes"], ",")
                      IN  "valid_status_codes" :> [i \in 1..Len(parts) |-> strip(parts[i])]
                 ELSE EmptyDict
    IN  IF numeric = {} THEN values @@ codes
        ELSE values @@ codes @@ ("str_typed" :> numeric)

\* Config._load_config and Config.monitor_defaults: the monitor_defaults of
\* the environment replace those of the file, which replace the built-in ones
monitor_defaults(file_config, environ) ==
    LET env_defaults == _load_monitor_defaults(environ)
    IN  IF env_defaults # EmptyDict THEN env_defaults
        ELSE Get(file_config, "monitor_defaults", builtin_monitor_defaults)

\* Config.namespace_filter when the configuration sets none
builtin_namespace_filter ==
    [ strategy |-> "all",
      namespaces |-> <<>>,
      annotation_key |-> ANNOTATION_ENABLED,
      annotation_value |-> STR_true ]

-----------------------------------------------------------------------------
(* The cluster and the external system *)

Identities == {"ing", "svc", "mon"}

\* the order in which a list call returns the resources
ListOrder == <<"ing", "svc", "mon">>

NoIdentity == "none"

STR_Ingress == <<"I","n","g","r","e","s","s">>
STR_Service == <<"S","e","r","v","i","c","e">>

\* the id the external system gives its n-th monitor
MonitorIdStr(n) == <<"m">> \o FormatNat(n)

\* whether the external system holds a monitor with this id
MonitorExists(monitor_id) ==
    \E n \in DOMAIN monitors : MonitorIdStr(n) = monitor_id

\* the stored binding of an identity: the annotation, or status.monitorId
Binding(r) ==
    IF resources[r].kind = "monitor"
    THEN Get(resources[r].status, "monitorId", None)
    ELSE get_monitor_id_from_annotations(resources[r].annotations)

-----------------------------------------------------------------------------
(* src/lunalytics/client.py, src/utils/retry.py *)

\* LunalyticsClient._handle_response: the exception raised for a status code
\* ("none" when the data is returned)
_handle_response(status_code) ==
    IF status_code = 200 THEN "none"
    ELSE IF status_code = 401 THEN "LunalyticsAuthenticationError"
    ELSE IF status_code = 404 THEN "LunalyticsNotFoundError"
    ELSE IF status_code = 422 THEN "LunalyticsValidationError"
    ELSE IF status_code = 429 THEN "LunalyticsRateLimitError"
    ELSE IF 500 <= status_code /\ status_code < 600 THEN "LunalyticsServerError"
    ELSE "LunalyticsAPIError"

\* an exceptions= argument that names the base class of the client's errors,
\* and so catches every one of them
retry_exceptions_with_base ==
    { "LunalyticsAPIError", "LunalyticsAuthenticationError",
      "LunalyticsNotFoundError", "LunalyticsValidationError",
      "LunalyticsServerError", "LunalyticsRateLimitError",
      "TimeoutException", "ConnectError", "RemoteProtocolError" }

\* the exceptions= argument of @async_retry on the four client methods
retry_exceptions ==
    { "LunalyticsServerError", "LunalyticsRateLimitError",
      "TimeoutException", "ConnectError", "RemoteProtocolError" }

\* a loop whose cap counts the retries, not the attempts
wrapper_outcome_counts_retries(attempts, attempt_before, raised) ==
    IF raised = "none" THEN "return"
    ELSE IF raised \in retry_exceptions
    THEN IF attempts # -1 /\ attempt_before >= attempts
         THEN "exhausted"
         ELSE "sleep"
    ELSE "raise"

\* a loop that stops only after one failure more than max_attempts
wrapper_outcome_off_by_one(attempts, attempt_before, raised) ==
    IF raised = "none" THEN "return"
    ELSE IF raised \in retry_exceptions
    THEN IF attempts # -1 /\ attempt_before + 1 > attempts
         THEN "exhausted"
         ELSE "sleep"
    ELSE "raise"

\* a loop that compares the count with max_attempts whatever its sign
wrapper_outcome_no_infinite(attempts, attempt_before, raised) ==
    IF raised = "none" THEN "return"
    ELSE IF raised \in retry_exceptions
    THEN IF attempt_before + 1 >= attempts
         THEN "exhausted"
         ELSE "sleep"
    ELSE "raise"

\* a loop that gives up one failure before max_attempts
wrapper_outcome_gives_up_early(attempts, attempt_before, raised) ==
    IF raised = "none" THEN "return"
    ELSE IF raised \in retry_exceptions
    THEN IF attempts # -1 /\ attempt_before + 1 >= attempts - 1
         THEN "exhausted"
         ELSE "sleep"
    ELSE "raise"

\* src/utils/retry.py wrapper(), one pass of `while True`: what the pass ends
\* in, given the local `attempts`, the local `attempt` before the pass and
\* what func raised ("none" when it returned)
wrapper_outcome(attempts, attempt_before, raised) ==
    IF raised = "none" THEN "return"
    ELSE IF raised \in retry_exceptions
    THEN IF attempts # -1 /\ attempt_before + 1 >= attempts
         THEN "exhausted"
         ELSE "sleep"
    ELSE "raise"

\* what one HTTP request can end in: a transport failure, or a status code
Responses ==
    [ transport : {"none"}, status : {200, 401, 404, 503} ]
    \cup [ transport : {"TimeoutException"}, status : {0} ]

\* the external system: which answers it can give to a request, and whether it
\* has applied the request (a lost answer may follow an applied request)
BackendAllows(op, monitor_id, resp, applied) ==
    IF resp.transport = "none"
    THEN IF resp.status = 200
         THEN /\ applied
              /\ IF op = "add" THEN next_id < MaxMonitors ELSE MonitorExists(monitor_id)
         ELSE IF resp.status = 404
         THEN ~applied /\ op # "add" /\ ~MonitorExists(monitor_id)
         ELSE ~applied
    ELSE IF resp.transport = "ConnectError" THEN ~applied
    ELSE applied =>
            IF op = "add" THEN next_id < MaxMonitors
            ELSE op = "delete" /\ MonitorExists(monitor_id)

\* the external system after a request it has applied
BackendApply(op, monitor_id, r) ==
    IF op = "add" THEN (next_id + 1 :> r) @@ monitors
    ELSE IF op = "delete"
    THEN [n \in {m \in DOMAIN monitors : MonitorIdStr(m) # monitor_id} |-> monitors[n]]
    ELSE monitors

-----------------------------------------------------------------------------
(* Handler coroutines *)

IdleTask ==
    [ pc |-> "idle", handler |-> "none", op |-> "none", attempt |-> 0,
      existing_monitor_id |-> None,
      monitor_config |-> EmptyDict,
      after_failed_write |-> FALSE ]

\* the record of one event: what its handler has called and written so far
EventRecord(type, seq, old_id) ==
    [ type |-> type, seq |-> seq, done |-> FALSE, old_id |-> old_id,
      gets |-> 0, creates |-> 0, updates |-> 0, deletes |-> 0,
      writes |-> 0, own_writes |-> 0, own_write_ok |-> FALSE,
      arbitration |-> "none", get_result |-> "none", delete_result |-> "none",
      created |-> None ]

\* the last event of r was a create/update event whose external create
\* succeeded and whose patch of the new id failed: the stored id is not the id
\* the create returned
FailedBindingWrite(r) ==
    /\ ev[r].done
    /\ ev[r].type = "create_or_update"
    /\ ev[r].created # None
    /\ ~ev[r].own_write_ok
    /\ Binding(r) # ev[r].created

\* the next event of identity r
NewEvent(r, type, old_id) == EventRecord(type, ev[r].seq + 1, old_id)

\* number of events delivered so far
Delivered == ev["ing"].seq + ev["svc"].seq + ev["mon"].seq

NoEvent == [EventRecord("none", 0, None) EXCEPT !.done = TRUE]

OpCounter(op) ==
    IF op = "get" THEN "gets"
    ELSE IF op = "add" THEN "creates"
    ELSE IF op = "edit" THEN "updates"
    ELSE "deletes"

\* the handler returns (or its except clause has run): the coroutine ends
Return(res_map, e) ==
    [ resources |-> res_map, task |-> IdleTask, ev |-> [e EXCEPT !.done = TRUE] ]

\* the handler awaits a client method: the first attempt of the retry loop
Call(res_map, t, e, op) ==
    [ resources |-> res_map,
      task |-> [t EXCEPT !.pc = "call", !.op = op, !.attempt = 0],
      ev |-> [e EXCEPT ![OpCounter(op)] = @ + 1] ]

\* a variant of _update_monitor_status that replaces the status instead of
\* merging into it: fields the patch does not name are dropped
_update_monitor_status_replaces(res_map, r, state, message, monitor_id, api_ok) ==
    IF api_ok /\ res_map[r].present
    THEN [res_map EXCEPT ![r].status =
              ("state" :> state) @@ ("message" :> message)
              @@ (IF Truthy(monitor_id) THEN "monitorId" :> monitor_id ELSE EmptyDict)]
    ELSE res_map

\* _update_monitor_status (monitor_crd.py): a merge patch of the CRD status;
\* a failure of the patch is logged and swallowed
_update_monitor_status(res_map, r, state, message, monitor_id, api_ok) ==
    IF api_ok /\ res_map[r].present
    THEN [res_map EXCEPT ![r].status =
              ("state" :> state) @@ ("message" :> message)
              @@ (IF Truthy(monitor_id) THEN "monitorId" :> monitor_id ELSE EmptyDict)
              @@ @]
    ELSE res_map

\* update_resource_annotations (annotations.py): read, update, patch
update_resource_annotations(res_map, r, resource_type, annotations, api_ok) ==
    IF resource_type \in {"ingress", "service"} /\ api_ok /\ res_map[r].present
    THEN [res_map EXCEPT ![r].annotations = annotations @@ @]
    ELSE res_map

\* ingress.py / service.py _check_duplicate_monitor: the first Monitor CRD of
\* the namespace whose spec.url is the url; none when the list call fails
_check_duplicate_monitor(url, namespace, list_ok) ==
    LET hits == { i \in 1..Len(ListOrder) :
                    LET m == resources[ListOrder[i]]
                    IN  /\ m.kind = "monitor" /\ m.present
                        /\ m.namespace = namespace
                        /\ Get(m.spec, "url", None) = url }
    IN  IF list_ok /\ hits # {}
        THEN ListOrder[CHOOSE i \in hits : \A j \in hits : i <= j]
        ELSE NoIdentity

\* ingress.py / service.py _handle_duplicate_conflict
_handle_duplicate_conflict(res_map, duplicate_name, api_ok) ==
    IF api_ok /\ res_map[duplicate_name].present
    THEN [res_map EXCEPT ![duplicate_name].status =
              ("state" :> "conflict") @@ ("message" :> "annotation takes precedence") @@ @]
    ELSE res_map

\* one loop of _check_duplicate_annotations over the resources of one kind
AnnotationDuplicate(kind, url, namespace) ==
    \E r \in Identities :
        /\ resources[r].kind = kind /\ resources[r].present
        /\ resources[r].namespace = namespace
        /\ lower(Get(resources[r].annotations, ANNOTATION_ENABLED, <<>>)) = STR_true
        /\ Get(resources[r].annotations, ANNOTATION_URL, None) = url

\* a variant of _check_duplicate_annotations that takes a list call it cannot
\* make for a duplicate
_check_duplicate_annotations_fail_closed(url, namespace, ingress_list, service_list) ==
    IF ingress_list # "ok" THEN "ingress"
    ELSE IF AnnotationDuplicate("ingress", url, namespace) THEN "ingress"
    ELSE IF service_list # "ok" THEN "service"
    ELSE IF AnnotationDuplicate("service", url, namespace) THEN "service"
    ELSE "none"

\* monitor_crd.py _check_duplicate_annotations: the type of the first enabled
\* Ingress, then Service, whose url annotation is the url. An ApiException of a
\* list call skips that kind; any other exception ends the check with None.
_check_duplicate_annotations(url, namespace, ingress_list, service_list) ==
    IF ingress_list = "Exception" THEN "none"
    ELSE IF ingress_list = "ok" /\ AnnotationDuplicate("ingress", url, namespace)
    THEN "ingress"
    ELSE IF service_list = "Exception" THEN "none"
    ELSE IF service_list = "ok" /\ AnnotationDuplicate("service", url, namespace)
    THEN "service"
    ELSE "none"

ListResults == {"ok", "ApiException", "Exception"}

\* the subclasses of LunalyticsAPIError (exceptions.py)
api_errors ==
    { "LunalyticsAPIError", "LunalyticsAuthenticationError", "LunalyticsNotFoundError",
      "LunalyticsValidationError", "LunalyticsServerError", "LunalyticsRateLimitError",
      "LunalyticsRetryExhaustedError" }

\* the event has patched the stored state of its own resource
OwnWrite(e, r, api_ok) ==
    [e EXCEPT !.writes = @ + 1, !.own_writes = @ + 1,
              !.own_write_ok = api_ok /\ resources[r].present]

\* the except clauses of a create/update handler: the annotation handlers log,
\* the CRD handler also reports state error
UpsertExcept(res_map, r, e, exc, api_ok) ==
    IF resources[r].kind = "monitor"
    THEN Return(_update_monitor_status(res_map, r, "error",
                    IF exc \in api_errors THEN "Lunalytics API error"
                    ELSE "Unexpected error", None, api_ok),
                OwnWrite(e, r, api_ok))
    ELSE Return(res_map, e)

\* a variant of CreateOrUpdate that asks the external system for the stored id
\* even when there is none
CreateOrUpdate_always_get(res_map, r, t, e, api_ok) ==
    Call(res_map, t, e, "get")

\* the create-or-update decision all three handlers share, from the stored id on
CreateOrUpdate(res_map, r, t, e, api_ok) ==
    IF Truthy(t.existing_monitor_id)
    THEN Call(res_map, t, e, "get")
    ELSE IF MonitorCreate(t.monitor_config)
    THEN Call(res_map, t, e, "add")
    ELSE UpsertExcept(res_map, r, e, "ValidationError", api_ok)

\* the URL an Ingress or a Service declares: build_monitor_url on the url
\* annotation and the spec, as the create/update handlers call it
annotated_url(res, resource_type) ==
    build_monitor_url(res.spec, resource_type, res.name, res.namespace,
                      Get(get_monitor_config_from_annotations(res.annotations),
                          "url", None))

\* the merged desired spec of an Ingress or a Service with a URL
annotated_monitor_config(res, resource_type, resource_kind) ==
    merge_with_defaults(
        ("name" :> get_monitor_name(res.annotations, res.name, resource_kind))
        @@ ("url" :> annotated_url(res, resource_type))
        @@ get_monitor_config_from_annotations(res.annotations))

\* handle_ingress_create_or_update / handle_service_create_or_update once the
\* desired spec has passed validation: arbitration with the Monitor CRDs, then
\* the create-or-update decision
annotated_reconcile(r, t, e, resource_type, resource_kind, list_ok, patch_ok) ==
    LET res == resources[r]
        url == annotated_url(res, resource_type)
        monitor_config == annotated_monitor_config(res, resource_type, resource_kind)
        arbitrate == config.duplicate_handling = "annotation_priority"
        duplicate_name ==
            IF arbitrate
            THEN _check_duplicate_monitor(url, res.namespace, list_ok)
            ELSE NoIdentity
        res1 == IF duplicate_name # NoIdentity
                THEN _handle_duplicate_conflict(resources, duplicate_name, patch_ok)
                ELSE resources
        e1 == [e EXCEPT
                  !.writes = IF duplicate_name # NoIdentity THEN @ + 1 ELSE @,
                  !.arbitration =
                      IF ~arbitrate THEN "none"
                      ELSE IF ~list_ok THEN "list_failed"
                      ELSE IF duplicate_name # NoIdentity THEN "duplicate"
                      ELSE "clear"]
        existing_monitor_id == get_monitor_id_from_annotations(res.annotations)
        t1 == [t EXCEPT !.existing_monitor_id = existing_monitor_id,
                        !.monitor_config = monitor_config]
    IN  CreateOrUpdate(res1, r, t1, e1, patch_ok)

\* a variant of annotated_create_or_update that logs the validation errors and
\* goes on (the return after the error log is missing)
annotated_create_or_update_unvalidated(r, resource_type, resource_kind, list_ok, patch_ok) ==
    LET res == resources[r]
        e == NewEvent(r, "create_or_update", Binding(r))
        t == [IdleTask EXCEPT !.handler = "create_or_update",
                              !.after_failed_write = FailedBindingWrite(r)]
    IN  IF ~is_namespace_monitored(res.namespace, handler_namespace_annotations(res))
        THEN Return(resources, e)
        ELSE IF ~is_monitoring_enabled(res.annotations) THEN Return(resources, e)
        ELSE IF ~Truthy(annotated_url(res, resource_type)) THEN Return(resources, e)
        ELSE annotated_reconcile(r, t, e, resource_type, resource_kind, list_ok, patch_ok)

\* handle_ingress_create_or_update / handle_service_create_or_update, up to the
\* first request to the external system
annotated_create_or_update(r, resource_type, resource_kind, list_ok, patch_ok) ==
    LET res == resources[r]
        e == NewEvent(r, "create_or_update", Binding(r))
        t == [IdleTask EXCEPT !.handler = "create_or_update",
                              !.after_failed_write = FailedBindingWrite(r)]
    IN  IF ~is_namespace_monitored(res.namespace, handler_namespace_annotations(res))
        THEN Return(resources, e)
        ELSE IF ~is_monitoring_enabled(res.annotations) THEN Return(resources, e)
        ELSE IF ~Truthy(annotated_url(res, resource_type)) THEN Return(resources, e)
        ELSE IF validate_monitor_config(
                    annotated_monitor_config(res, resource_type, resource_kind)) # <<>>
        THEN Return(resources, e)
        ELSE annotated_reconcile(r, t, e, resource_type, resource_kind, list_ok, patch_ok)

STR_GET == <<"G","E","T">>
STR_200_299 == <<"2","0","0","-","2","9","9">>

\* the desired spec handle_monitor_create_or_update builds from a CRD spec
monitor_crd_config(spec) ==
    [ name |-> spec["name"],
      url |-> spec["url"],
      type |-> Get(spec, "type", STR_http),
      method |-> Get(spec, "method", STR_GET),
      interval |-> Get(spec, "interval", 30),
      retry_interval |-> Get(spec, "retryInterval", 30),
      request_timeout |-> Get(spec, "requestTimeout", 30),
      valid_status_codes |-> Get(spec, "validStatusCodes", <<STR_200_299>>) ]

\* handle_monitor_create_or_update, up to the first request to the external system
monitor_create_or_update(r, ingress_list, service_list, status_ok) ==
    LET res == resources[r]
        spec == res.spec
        status == res.status
        e == NewEvent(r, "create_or_update", Binding(r))
        t == [IdleTask EXCEPT !.handler = "create_or_update",
                              !.after_failed_write = FailedBindingWrite(r)]
    IN  IF ~is_namespace_monitored(res.namespace, handler_namespace_annotations(res))
        THEN Return(resources, e)
        ELSE IF ~Truthy(Get(spec, "name", None))
        THEN Return(_update_monitor_status(resources, r, "error",
                        "Missing required field: name", None, status_ok),
                    OwnWrite(e, r, status_ok))
        ELSE IF ~Truthy(Get(spec, "url", None))
        THEN Return(_update_monitor_status(resources, r, "error",
                        "Missing required field: url", None, status_ok),
                    OwnWrite(e, r, status_ok))
        ELSE
        LET url == spec["url"]
            arbitrate == config.duplicate_handling = "annotation_priority"
            duplicate_info ==
                IF arbitrate
                THEN _check_duplicate_annotations(url, res.namespace,
                                                  ingress_list, service_list)
                ELSE "none"
            e1 == [e EXCEPT !.arbitration =
                      IF ~arbitrate THEN "none"
                      ELSE IF duplicate_info # "none" THEN "duplicate"
                      ELSE IF ingress_list # "ok" \/ service_list # "ok" THEN "list_failed"
                      ELSE "clear"]
        IN  IF duplicate_info # "none"
            THEN Return(_update_monitor_status(resources, r, "conflict",
                            "annotation takes precedence", None, status_ok),
                        OwnWrite(e1, r, status_ok))
            ELSE
            LET existing_monitor_id == Get(status, "monitorId", None)
                t1 == [t EXCEPT !.existing_monitor_id = existing_monitor_id,
                                !.monitor_config = monitor_crd_config(spec)]
            IN  CreateOrUpdate(resources, r, t1, e1, status_ok)

\* a variant of resource_delete that first asks the external system whether
\* the bound monitor exists
resource_delete_checks_first(r) ==
    LET monitor_id == Binding(r)
        e == NewEvent(r, "delete", monitor_id)
        t == [IdleTask EXCEPT !.handler = "delete", !.existing_monitor_id = monitor_id]
    IN  IF ~Truthy(monitor_id)
        THEN Return([resources EXCEPT ![r].present = FALSE], e)
        ELSE Call(resources, t, e, "get")

\* a delete handler of an Ingress or a Service that, like the create/update
\* and resume handlers, leaves a resource alone whose monitoring is not enabled
resource_delete_if_enabled(r) ==
    LET monitor_id == Binding(r)
        e == NewEvent(r, "delete", monitor_id)
        t == [IdleTask EXCEPT !.handler = "delete", !.existing_monitor_id = monitor_id]
    IN  IF ~Truthy(monitor_id)
        THEN Return([resources EXCEPT ![r].present = FALSE], e)
        ELSE IF resources[r].kind # "monitor"
                /\ ~is_monitoring_enabled(resources[r].annotations)
             THEN Return([resources EXCEPT ![r].present = FALSE], e)
        ELSE Call(resources, t, e, "delete")

\* handle_ingress_delete / handle_service_delete / handle_monitor_delete, up to
\* the request to the external system; the resource is gone when the handler ends
resource_delete(r) ==
    LET monitor_id == Binding(r)
        e == NewEvent(r, "delete", monitor_id)
        t == [IdleTask EXCEPT !.handler = "delete", !.existing_monitor_id = monitor_id]
    IN  IF ~Truthy(monitor_id)
        THEN Return([resources EXCEPT ![r].present = FALSE], e)
        ELSE Call(resources, t, e, "delete")

\* handle_ingress_resume / handle_service_resume, up to the request
annotated_resume(r) ==
    LET annotations == resources[r].annotations
        monitor_id == get_monitor_id_from_annotations(annotations)
        e == NewEvent(r, "resume", monitor_id)
        t == [IdleTask EXCEPT !.handler = "resume", !.existing_monitor_id = monitor_id]
    IN  IF ~is_monitoring_enabled(annotations) THEN Return(resources, e)
        ELSE IF ~Truthy(monitor_id) THEN Return(resources, e)
        ELSE Call(resources, t, e, "get")

\* a variant of monitor_resume that reports a CRD without a stored id as
\* active, without asking the external system
monitor_resume_reports_active(r) ==
    LET monitor_id == Get(resources[r].status, "monitorId", None)
        e == NewEvent(r, "resume", monitor_id)
        t == [IdleTask EXCEPT !.handler = "resume", !.existing_monitor_id = monitor_id]
    IN  IF ~Truthy(monitor_id)
        THEN Return(_update_monitor_status(resources, r, "active",
                        "Monitor validated successfully", None, TRUE),
                    OwnWrite(e, r, TRUE))
        ELSE Call(resources, t, e, "get")

\* handle_monitor_resume, up to the request
monitor_resume(r) ==
    LET monitor_id == Get(resources[r].status, "monitorId", None)
        e == NewEvent(r, "resume", monitor_id)
        t == [IdleTask EXCEPT !.handler = "resume", !.existing_monitor_id = monitor_id]
    IN  IF ~Truthy(monitor_id) THEN Return(resources, e)
        ELSE Call(resources, t, e, "get")

\* a variant of AfterValidateExists that reports a missing monitor and stops,
\* without creating it again
AfterValidateExists_no_recreate(r, t, e, raised, api_ok) ==
    LET exists == (raised = "none")
        e1 == [e EXCEPT !.get_result =
                  IF raised = "none" THEN "found"
                  ELSE IF raised = "LunalyticsNotFoundError" THEN "not_found"
                  ELSE "failed"]
    IN  IF exists
        THEN IF MonitorUpdate(MonitorUpdateKwargs(t.existing_monitor_id, t.monitor_config))
             THEN Call(resources, t, e1, "edit")
             ELSE UpsertExcept(resources, r, e1, "ValidationError", api_ok)
        ELSE UpsertExcept(resources, r, e1, "LunalyticsNotFoundError", api_ok)

\* validate_monitor_exists (client.py) and the branch of the create/update
\* handlers that follows it: every exception of get_monitor reads as "absent"
AfterValidateExists(r, t, e, raised, api_ok) ==
    LET exists == (raised = "none")
        e1 == [e EXCEPT !.get_result =
                  IF raised = "none" THEN "found"
                  ELSE IF raised = "LunalyticsNotFoundError" THEN "not_found"
                  ELSE "failed"]
    IN  IF exists
        THEN IF MonitorUpdate(MonitorUpdateKwargs(t.existing_monitor_id, t.monitor_config))
             THEN Call(resources, t, e1, "edit")
             ELSE UpsertExcept(resources, r, e1, "ValidationError", api_ok)
        ELSE IF MonitorCreate(t.monitor_config)
             THEN Call(resources, t, e1, "add")
             ELSE UpsertExcept(resources, r, e1, "ValidationError", api_ok)

\* the create/update handlers after edit_monitor has returned or raised
AfterEdit(r, t, e, raised, returned_id, api_ok) ==
    IF raised # "none" THEN UpsertExcept(resources, r, e, raised, api_ok)
    ELSE IF resources[r].kind = "monitor"
    THEN Return(_update_monitor_status(resources, r, "active",
                    "Monitor updated successfully", returned_id, api_ok),
                OwnWrite(e, r, api_ok))
    ELSE Return(resources, e)

\* a variant of AfterAdd that sends the desired spec once more, as an update of
\* the monitor it has just created
AfterAdd_then_edit(r, t, e, raised, returned_id, api_ok) ==
    IF raised # "none" THEN UpsertExcept(resources, r, e, raised, api_ok)
    ELSE Call(resources, [t EXCEPT !.existing_monitor_id = returned_id],
              [e EXCEPT !.created = returned_id], "edit")

\* a variant of AfterAdd in which a failed status patch is not swallowed: it
\* reaches the except clause of the CRD handler, which patches the status again
AfterAdd_status_raises(r, t, e, raised, returned_id, api_ok) ==
    IF raised # "none" THEN UpsertExcept(resources, r, e, raised, api_ok)
    ELSE IF resources[r].kind = "monitor"
    THEN IF api_ok
         THEN Return(_update_monitor_status(resources, r, "active",
                         "Monitor created successfully", returned_id, api_ok),
                     OwnWrite([e EXCEPT !.created = returned_id], r, api_ok))
         ELSE UpsertExcept(resources, r,
                           OwnWrite([e EXCEPT !.created = returned_id], r, api_ok),
                           "ApiException", api_ok)
    ELSE Return(update_resource_annotations(resources, r, resources[r].kind,
                    create_monitor_id_annotation(returned_id), api_ok),
                OwnWrite([e EXCEPT !.created = returned_id], r, api_ok))

\* a variant of AfterAdd that rolls back: when the patch of the new id fails,
\* it sends a delete for the monitor it has just created
AfterAdd_compensates(r, t, e, raised, returned_id, api_ok) ==
    LET e1 == [e EXCEPT !.created = returned_id,
                        !.deletes = IF api_ok /\ resources[r].present THEN @ ELSE @ + 1]
    IN  IF raised # "none" THEN UpsertExcept(resources, r, e, raised, api_ok)
        ELSE IF resources[r].kind = "monitor"
        THEN Return(_update_monitor_status(resources, r, "active",
                        "Monitor created successfully", returned_id, api_ok),
                    OwnWrite(e1, r, api_ok))
        ELSE Return(update_resource_annotations(resources, r, resources[r].kind,
                        create_monitor_id_annotation(returned_id), api_ok),
                    OwnWrite(e1, r, api_ok))

\* the create/update handlers after add_monitor has returned or raised
AfterAdd(r, t, e, raised, returned_id, api_ok) ==
    IF raised # "none" THEN UpsertExcept(resources, r, e, raised, api_ok)
    ELSE IF resources[r].kind = "monitor"
    THEN Return(_update_monitor_status(resources, r, "active",
                    "Monitor created successfully", returned_id, api_ok),
                OwnWrite([e EXCEPT !.created = returned_id], r, api_ok))
    ELSE Return(update_resource_annotations(resources, r, resources[r].kind,
                    create_monitor_id_annotation(returned_id), api_ok),
                OwnWrite([e EXCEPT !.created = returned_id], r, api_ok))

\* a variant of AfterDelete that lets a failure of delete_monitor other than
\* not-found reach the event-delivery layer: the resource keeps its finalizer
AfterDelete_propagates(r, t, e, raised) ==
    IF raised \in {"none", "LunalyticsNotFoundError"}
    THEN Return([resources EXCEPT ![r].present = FALSE],
                [e EXCEPT !.delete_result =
                    IF raised = "none" THEN "deleted" ELSE "not_found"])
    ELSE Return(resources, [e EXCEPT !.delete_result = "failed"])

\* the delete handlers after delete_monitor has returned or raised: every
\* outcome is logged, and the resource is gone
AfterDelete(r, t, e, raised) ==
    Return([resources EXCEPT ![r].present = FALSE],
           [e EXCEPT !.delete_result =
               IF raised = "none" THEN "deleted"
               ELSE IF raised = "LunalyticsNotFoundError" THEN "not_found"
               ELSE "failed"])

\* a variant of AfterResumeGet that creates the monitor again when the
\* external system does not know the bound id
AfterResumeGet_recreates(r, t, e, raised, returned_id, api_ok) ==
    LET e1 == [e EXCEPT !.get_result =
                  IF raised = "none" THEN "found"
                  ELSE IF raised = "LunalyticsNotFoundError" THEN "not_found"
                  ELSE "failed"]
    IN  IF raised = "LunalyticsNotFoundError" /\ t.op = "get"
        THEN Call(resources, t, e1, "add")
        ELSE Return(resources, e)

\* the resume handlers after get_monitor has returned or raised
AfterResumeGet(r, t, e, raised, returned_id, api_ok) ==
    LET e1 == [e EXCEPT !.get_result =
                  IF raised = "none" THEN "found"
                  ELSE IF raised = "LunalyticsNotFoundError" THEN "not_found"
                  ELSE "failed"]
    IN  IF resources[r].kind # "monitor" THEN Return(resources, e1)
        ELSE IF raised = "none"
        THEN Return(_update_monitor_status(resources, r, "active",
                        "Monitor validated successfully", returned_id, api_ok),
                    OwnWrite(e1, r, api_ok))
        ELSE IF raised = "LunalyticsNotFoundError"
        THEN Return(_update_monitor_status(resources, r, "error",
                        "Monitor not found in Lunalytics", None, api_ok),
                    OwnWrite(e1, r, api_ok))
        ELSE Return(_update_monitor_status(resources, r, "error",
                        "Error validating monitor", None, api_ok),
                    OwnWrite(e1, r, api_ok))

\* the handler resumes after the awaited client method returned or raised
Continue(r, t, e, raised, returned_id, api_ok) ==
    IF t.handler = "delete" THEN AfterDelete(r, t, e, raised)
    ELSE IF t.handler = "resume" THEN AfterResumeGet(r, t, e, raised, returned_id, api_ok)
    ELSE IF t.op = "get" THEN AfterValidateExists(r, t, e, raised, api_ok)
    ELSE IF t.op = "edit" THEN AfterEdit(r, t, e, raised, returned_id, api_ok)
    ELSE AfterAdd(r, t, e, raised, returned_id, api_ok)

\* a variant of RetryPass without the loop: the first failure of the wrapped
\* method reaches the handler as it is
RetryPass_no_retry(r, t, e, raised, returned_id, api_ok) ==
    Continue(r, t, e, raised, returned_id, api_ok)

\* one pass of the while loop of async_retry's wrapper (retry.py): the wrapped
\* method is called once; a classified failure either exhausts the attempts or
\* leads to the sleep before the next pass
RetryPass(r, t, e, raised, returned_id, api_ok) ==
    LET attempts == config.max_retry_attempts
        attempt == t.attempt + 1
        outcome == wrapper_outcome(attempts, t.attempt, raised)
    IN  IF outcome = "return" THEN Continue(r, t, e, "none", returned_id, api_ok)
        ELSE IF outcome = "exhausted"
        THEN Continue(r, [t EXCEPT !.attempt = attempt],
                      e, "LunalyticsRetryExhaustedError", returned_id, api_ok)
        ELSE IF outcome = "sleep"
        THEN [ resources |-> resources,
               task |-> [t EXCEPT !.pc = "wait", !.attempt = attempt],
               ev |-> e ]
        ELSE Continue(r, t, e, raised, returned_id, api_ok)

-----------------------------------------------------------------------------
(* Actions *)

\* an event of identity r can be delivered: none of its events is in flight
\* delivery under a retry loop that sleeps without yielding (time.sleep, as
\* in sync_retry): no handler starts while any unit of work waits
Deliverable_blocking_sleep(r, kind) ==
    /\ resources[r].kind = kind
    /\ resources[r].present
    /\ task[r].pc = "idle"
    /\ Delivered < MaxEvents
    /\ \A q \in Identities : task[q].pc # "wait"

Deliverable(r, kind) ==
    /\ resources[r].kind = kind
    /\ resources[r].present
    /\ task[r].pc = "idle"
    /\ Delivered < MaxEvents

Apply(r, step) ==
    /\ resources' = step.resources
    /\ task' = [task EXCEPT ![r] = step.task]
    /\ ev' = [ev EXCEPT ![r] = step.ev]

handle_ingress_create_or_update(r) ==
    /\ Deliverable(r, "ingress")
    /\ \E list_ok \in BOOLEAN, patch_ok \in BOOLEAN :
           Apply(r, annotated_create_or_update(r, "ingress", STR_Ingress, list_ok, patch_ok))
    /\ UNCHANGED <<config, monitors, next_id, retry, probe>>

handle_service_create_or_update(r) ==
    /\ Deliverable(r, "service")
    /\ \E list_ok \in BOOLEAN, patch_ok \in BOOLEAN :
           Apply(r, annotated_create_or_update(r, "service", STR_Service, list_ok, patch_ok))
    /\ UNCHANGED <<config, monitors, next_id, retry, probe>>

handle_monitor_create_or_update(r) ==
    /\ Deliverable(r, "monitor")
    /\ \E ingress_list \in ListResults, service_list \in ListResults, status_ok \in BOOLEAN :
           Apply(r, monitor_create_or_update(r, ingress_list, service_list, status_ok))
    /\ UNCHANGED <<config, monitors, next_id, retry, probe>>

handle_ingress_delete(r) ==
    /\ Deliverable(r, "ingress")
    /\ Apply(r, resource_delete(r))
    /\ UNCHANGED <<config, monitors, next_id, retry, probe>>

handle_service_delete(r) ==
    /\ Deliverable(r, "service")
    /\ Apply(r, resource_delete(r))
    /\ UNCHANGED <<config, monitors, next_id, retry, probe>>

handle_monitor_delete(r) ==
    /\ Deliverable(r, "monitor")
    /\ Apply(r, resource_delete(r))
    /\ UNCHANGED <<config, monitors, next_id, retry, probe>>

handle_ingress_resume(r) ==
    /\ Deliverable(r, "ingress")
    /\ Apply(r, annotated_resume(r))
    /\ UNCHANGED <<config, monitors, next_id, retry, probe>>

handle_service_resume(r) ==
    /\ Deliverable(r, "service")
    /\ Apply(r, annotated_resume(r))
    /\ UNCHANGED <<config, monitors, next_id, retry, probe>>

handle_monitor_resume(r) ==
    /\ Deliverable(r, "monitor")
    /\ Apply(r, monitor_resume(r))
    /\ UNCHANGED <<config, monitors, next_id, retry, probe>>

\* a request of the coroutine of r is answered (or fails in transport), and the
\* coroutine runs on to its next suspension
async_retry_wrapper(r) ==
    /\ task[r].pc = "call"
    /\ \E resp \in Responses, applied \in BOOLEAN, api_ok \in BOOLEAN :
           LET t == task[r]
               raised == IF resp.transport # "none" THEN resp.transport
                         ELSE _handle_response(resp.status)
               returned_id == IF t.op = "add" THEN MonitorIdStr(next_id + 1)
                              ELSE t.existing_monitor_id
               e == ev[r]
           IN  /\ BackendAllows(t.op, t.existing_monitor_id, resp, applied)
               /\ Apply(r, RetryPass(r, t, e, raised, returned_id, api_ok))
               /\ monitors' = IF applied
                              THEN BackendApply(t.op, t.existing_monitor_id, r)
                              ELSE monitors
               /\ next_id' = IF applied /\ t.op = "add" THEN next_id + 1 ELSE next_id
    /\ UNCHANGED <<config, retry, probe>>

\* await asyncio.sleep(wait_time) of the retry loop returns
asyncio_sleep(r) ==
    /\ task[r].pc = "wait"
    /\ task' = [task EXCEPT ![r].pc = "call"]
    /\ UNCHANGED <<config, resources, monitors, next_id, ev, retry, probe>>

\* a variant of except_Exception_catches for an interpreter in which
\* asyncio.CancelledError still derives from Exception (before Python 3.8)
except_Exception_catches_cancel(exc) == TRUE

\* `except Exception` (and `except LunalyticsAPIError`) of the handlers:
\* asyncio.CancelledError derives from BaseException (the sources use the
\* walrus operator, so the interpreter is 3.8 or later) and passes through
except_Exception_catches(exc) == exc # "CancelledError"

\* the unit of work of r is cancelled inside await asyncio.sleep(wait_time):
\* the sleep raises CancelledError inside the except clause of the wrapper,
\* which has no handler for it; it leaves the client's context manager and
\* reaches the except clauses of the handler
asyncio_cancel(r) ==
    /\ task[r].pc = "wait"
    /\ \E api_ok \in BOOLEAN :
           Apply(r, IF except_Exception_catches("CancelledError")
                    THEN IF task[r].handler = "create_or_update"
                         THEN UpsertExcept(resources, r, ev[r], "CancelledError", api_ok)
                         ELSE Return(resources, ev[r])
                    ELSE [ resources |-> resources,
                           task |-> [task[r] EXCEPT !.pc = "cancelled"],
                           ev |-> ev[r] ])
    /\ UNCHANGED <<config, monitors, next_id, retry, probe>>

\* the external record vanishes independently of the operator
MonitorVanishes ==
    /\ \E n \in DOMAIN monitors :
           monitors' = [m \in DOMAIN monitors \ {n} |-> monitors[m]]
    /\ UNCHANGED <<config, resources, next_id, task, ev, retry, probe>>

-----------------------------------------------------------------------------
(* Initial states *)

STR_ns == <<"p">>
URL_A == STR_http \o STR_scheme_sep \o <<"a","/">>
URL_B == STR_http \o STR_scheme_sep \o <<"b","/">>
URL_FTP == <<"f","t","p">> \o STR_scheme_sep \o <<"a">>

\* an Ingress spec from which build_ingress_url derives URL_A
IngressSpecA ==
    [ rules |-> << [ host |-> <<"a">>,
                     http |-> [ paths |-> << [ path |-> <<"/">> ] >> ] ] >> ]

ServiceSpec80 == [ ports |-> << [ port |-> 80, protocol |-> <<"T","C","P">> ] >> ]

Enabled == ANNOTATION_ENABLED :> STR_true

Absent == [ present |-> FALSE, annotations |-> EmptyDict, spec |-> EmptyDict ]

\* the binding of a resource the operator bound to monitor 1 in an earlier run
BoundAnnotation == create_monitor_id_annotation(MonitorIdStr(1))

Annotated(annotations) ==
    [ present |-> TRUE, annotations |-> annotations, spec |-> EmptyDict ]

Monitor(spec) == [ present |-> TRUE, annotations |-> EmptyDict, spec |-> spec ]

ExplicitA == (ANNOTATION_ENABLED :> <<"T","r","u","e">>) @@ (ANNOTATION_URL :> URL_A)

MonitorA == Monitor([ name |-> <<"m">>, url |-> URL_A ])

\* a namespace_filter of strategy list that names another namespace only
OtherNamespaceOnly ==
    [ strategy |-> "list",
      namespaces |-> << <<"o">> >>,
      annotation_key |-> ANNOTATION_ENABLED,
      annotation_value |-> STR_true ]

\* a namespace_filter of strategy annotation
ByNamespaceAnnotation ==
    [ strategy |-> "annotation",
      namespaces |-> <<>>,
      annotation_key |-> ANNOTATION_ENABLED,
      annotation_value |-> STR_true ]

\* the clusters the operator is started in: the duplicate policy, and the
\* Ingress, Service and Monitor CRD of one namespace
Scenarios ==
    { \* an Ingress whose URL is derived, and a Monitor CRD of the same URL
      [ dh |-> "annotation_priority", bound |-> NoIdentity,
        ing |-> Annotated(Enabled), svc |-> Absent,
        mon |-> MonitorA ],
      \* an Ingress with the URL as annotation, and a Monitor CRD of the same URL
      [ dh |-> "annotation_priority", bound |-> NoIdentity,
        ing |-> Annotated(ExplicitA), svc |-> Absent,
        mon |-> MonitorA ],
      \* the same under a policy that does not arbitrate
      [ dh |-> "allow", bound |-> NoIdentity,
        ing |-> Annotated(ExplicitA), svc |-> Absent,
        mon |-> MonitorA ],
      \* a Service with the URL as annotation, and a Monitor CRD of the same URL
      [ dh |-> "annotation_priority", bound |-> NoIdentity,
        ing |-> Absent, svc |-> Annotated(ExplicitA),
        mon |-> MonitorA ],
      \* a Service whose URL is derived, and a Monitor CRD of another URL
      [ dh |-> "annotation_priority", bound |-> NoIdentity,
        ing |-> Absent, svc |-> Annotated(Enabled),
        mon |-> Monitor([ name |-> <<"m">>, url |-> URL_B ]) ],
      \* an Ingress whose url annotation is no http(s) URL
      [ dh |-> "annotation_priority", bound |-> NoIdentity,
        ing |-> Annotated(Enabled @@ (ANNOTATION_URL :> URL_FTP)),
        svc |-> Absent, mon |-> Absent ],
      \* an Ingress bound to monitor 1 whose url annotation now is no http(s) URL
      [ dh |-> "annotation_priority", bound |-> "ing",
        ing |-> Annotated(Enabled @@ (ANNOTATION_URL :> URL_FTP) @@ BoundAnnotation),
        svc |-> Absent, mon |-> Absent ],
      \* an Ingress whose interval annotation is 0, and a Monitor CRD of the same URL
      [ dh |-> "annotation_priority", bound |-> NoIdentity,
        ing |-> Annotated(ExplicitA @@ (ANNOTATION_INTERVAL :> <<"0">>)),
        svc |-> Absent, mon |-> MonitorA ],
      \* an Ingress without the enablement annotation, a Service whose
      \* enablement annotation is "yes", and a Monitor CRD without a name
      [ dh |-> "annotation_priority", bound |-> NoIdentity,
        ing |-> Annotated(ANNOTATION_URL :> URL_A),
        svc |-> Annotated(ANNOTATION_ENABLED :> <<"y","e","s">>),
        mon |-> Monitor([ url |-> URL_A ]) ],
      \* a Monitor CRD without a url
      [ dh |-> "annotation_priority", bound |-> NoIdentity,
        ing |-> Absent, svc |-> Absent,
        mon |-> Monitor([ name |-> <<"m">> ]) ],
      \* a Monitor CRD whose interval is 0
      [ dh |-> "annotation_priority", bound |-> NoIdentity,
        ing |-> Absent, svc |-> Absent,
        mon |-> Monitor([ name |-> <<"m">>, url |-> URL_A, interval |-> 0 ]) ],
      \* a namespace the filter rejects: an Ingress bound to monitor 1 before the
      \* filter was narrowed to another namespace, and a Monitor CRD
      [ dh |-> "annotation_priority", bound |-> "ing", nf |-> OtherNamespaceOnly,
        ing |-> Annotated(ExplicitA @@ BoundAnnotation),
        svc |-> Absent, mon |-> MonitorA ],
      \* an Ingress with the URL as annotation, and a Monitor CRD of the same URL
      \* whose interval is 0
      [ dh |-> "annotation_priority", bound |-> NoIdentity,
        ing |-> Annotated(ExplicitA), svc |-> Absent,
        mon |-> Monitor([ name |-> <<"m">>, url |-> URL_A, interval |-> 0 ]) ],
      \* an enabled Ingress without rules and an enabled Service without ports
      [ dh |-> "annotation_priority", bound |-> NoIdentity,
        ing |-> Annotated(Enabled), ingspec |-> [ rules |-> <<>> ],
        svc |-> Annotated(Enabled), svcspec |-> [ ports |-> <<>> ],
        mon |-> Absent ],
      \* an enabled Service whose url annotation is the empty string
      [ dh |-> "annotation_priority", bound |-> NoIdentity,
        ing |-> Absent,
        svc |-> Annotated(Enabled @@ (ANNOTATION_URL :> <<>>)),
        mon |-> Absent ],
      \* a namespace filter by annotation, and a namespace that carries the
      \* annotation the filter asks for
      [ dh |-> "annotation_priority", bound |-> NoIdentity,
        nf |-> ByNamespaceAnnotation, nsann |-> Enabled,
        ing |-> Annotated(ExplicitA), svc |-> Annotated(Enabled), mon |-> MonitorA ],
      \* a Service bound to monitor 1 whose enablement annotation was set to
      \* "false" afterwards
      [ dh |-> "annotation_priority", bound |-> "svc", ing |-> Absent,
        svc |-> Annotated((ANNOTATION_ENABLED :> <<"f","a","l","s","e">>)
                          @@ (ANNOTATION_URL :> URL_A) @@ BoundAnnotation),
        mon |-> Absent ] }

\* the namespace filter of a scenario: the built-in one unless it sets one
ScenarioFilter(sc) ==
    IF "nf" \in DOMAIN sc THEN sc.nf ELSE builtin_namespace_filter

\* the retry configuration of the scenarios
ScenarioMaxAttempts == 2

\* the annotations of the namespace of a scenario: none unless it sets some
ScenarioNamespaceAnnotations(sc) ==
    IF "nsann" \in DOMAIN sc THEN sc.nsann ELSE EmptyDict

\* the resources of a scenario as the cluster holds them
ScenarioResources(sc) ==
    [ ing |-> [ kind |-> "ingress", name |-> <<"w">>, namespace |-> STR_ns,
                namespace_annotations |-> ScenarioNamespaceAnnotations(sc),
                present |-> sc.ing.present, annotations |-> sc.ing.annotations,
                spec |-> IF "ingspec" \in DOMAIN sc THEN sc.ingspec ELSE IngressSpecA,
                status |-> EmptyDict ],
      svc |-> [ kind |-> "service", name |-> <<"s">>, namespace |-> STR_ns,
                namespace_annotations |-> ScenarioNamespaceAnnotations(sc),
                present |-> sc.svc.present, annotations |-> sc.svc.annotations,
                spec |-> IF "svcspec" \in DOMAIN sc THEN sc.svcspec ELSE ServiceSpec80,
                status |-> EmptyDict ],
      mon |-> [ kind |-> "monitor", name |-> <<"m">>, namespace |-> STR_ns,
                namespace_annotations |-> ScenarioNamespaceAnnotations(sc),
                present |-> sc.mon.present, annotations |-> EmptyDict,
                spec |-> sc.mon.spec, status |-> EmptyDict ] ]

\* no call of a client method is followed alone
RetryOff ==
    [ pc |-> "off", attempt |-> 0, sleeps |-> 0, history |-> <<>>,
      raised |-> "none", cause |-> "none", wait_time |-> 0 ]

\* no function is followed alone
ProbeOff == [ fn |-> "none", pc |-> "off" ]

Init ==
    \E sc \in Scenarios :
        /\ config = [ duplicate_handling |-> sc.dh,
                      max_retry_attempts |-> ScenarioMaxAttempts,
                      monitor_defaults |-> builtin_monitor_defaults,
                      namespace_filter |-> ScenarioFilter(sc) ]
        /\ resources = ScenarioResources(sc)
        /\ monitors = IF sc.bound = NoIdentity THEN EmptyDict ELSE (1 :> sc.bound)
        /\ next_id = IF sc.bound = NoIdentity THEN 0 ELSE 1
        /\ task = [r \in Identities |-> IdleTask]
        /\ ev = [r \in Identities |-> NoEvent]
        /\ retry = RetryOff
        /\ probe = ProbeOff

Next ==
    \/ \E r \in Identities : handle_ingress_create_or_update(r)
    \/ \E r \in Identities : handle_service_create_or_update(r)
    \/ \E r \in Identities : handle_monitor_create_or_update(r)
    \/ \E r \in Identities : handle_ingress_delete(r)
    \/ \E r \in Identities : handle_service_delete(r)
    \/ \E r \in Identities : handle_monitor_delete(r)
    \/ \E r \in Identities : handle_ingress_resume(r)
    \/ \E r \in Identities : handle_service_resume(r)
    \/ \E r \in Identities : handle_monitor_resume(r)
    \/ \E r \in Identities : async_retry_wrapper(r)
    \/ \E r \in Identities : asyncio_sleep(r)
    \/ MonitorVanishes

Spec == Init /\ [][Next]_vars

\* the operator with shutdown: a unit of work can be cancelled in its retry wait
NextShutdown ==
    \/ \E r \in Identities : handle_ingress_create_or_update(r)
    \/ \E r \in Identities : handle_service_create_or_update(r)
    \/ \E r \in Identities : handle_monitor_create_or_update(r)
    \/ \E r \in Identities : handle_ingress_delete(r)
    \/ \E r \in Identities : handle_service_delete(r)
    \/ \E r \in Identities : handle_monitor_delete(r)
    \/ \E r \in Identities : handle_ingress_resume(r)
    \/ \E r \in Identities : handle_service_resume(r)
    \/ \E r \in Identities : handle_monitor_resume(r)
    \/ \E r \in Identities : async_retry_wrapper(r)
    \/ \E r \in Identities : asyncio_sleep(r)
    \/ \E r \in Identities : asyncio_cancel(r)
    \/ MonitorVanishes

SpecShutdown == Init /\ [][NextShutdown]_vars

-----------------------------------------------------------------------------
(* One call of a client method seen alone: src/utils/retry.py wrapper()
   around a function that sends one HTTP request and hands the response to
   _handle_response *)

\* invocations of the wrapped function that are followed
MaxPasses == 4

\* retry.max_attempts of the configuration (src/config.py: -1 for infinite)
RetryAttemptChoices == {-1, 0, 1, 2, 3}

\* what one HTTP request can end in: a status code of every branch of
\* _handle_response with the edges of the 5xx range, the three transport
\* failures the decorator names, and one it does not name
WrapperResponses ==
    [ transport : {"none"},
      status : {200, 201, 400, 401, 404, 422, 429, 499, 500, 599, 600} ]
    \cup [ transport : {"TimeoutException", "ConnectError",
                        "RemoteProtocolError", "ReadError"},
           status : {0} ]

\* what the wrapped function raises on a response ("none": it returns)
func_raises(resp) ==
    IF resp.transport # "none" THEN resp.transport
    ELSE _handle_response(resp.status)

\* retry.backoff_factor and retry.max_delay of the configuration: the
\* built-in values, and a pair whose powers pass the maximum early
BackoffChoices ==
    { [ backoff_factor |-> 2, max_delay |-> 300 ],
      [ backoff_factor |-> 3, max_delay |-> 5 ] }

\* 0.5 + random.random() * 0.5, in thousandths: random() is in [0, 1)
JitterChoices == {500, 750, 999}

RECURSIVE Pow(_, _)
Pow(b, e) == IF e = 0 THEN 1 ELSE b * Pow(b, e - 1)

Min(x, y) == IF x <= y THEN x ELSE y

\* a schedule that leaves out the maximum delay
wait_time_uncapped(attempt, factor, delay, jitter) ==
    IF attempt = 1 THEN 1000 ELSE Pow(factor, attempt - 1) * jitter

\* wait_time of the wrapper after failure number `attempt`, in thousandths of
\* a second: 1.0 after the first failure, else
\* min(factor ** (attempt - 1), delay) * (0.5 + random.random() * 0.5)
wait_time(attempt, factor, delay, jitter) ==
    IF attempt = 1 THEN 1000
    ELSE Min(Pow(factor, attempt - 1), delay) * jitter

\* one pass of `while True`: return await func(...), and the except clause
wrapper_pass ==
    /\ retry.pc = "call"
    /\ Len(retry.history) < MaxPasses
    /\ \E resp \in WrapperResponses, jitter \in JitterChoices :
           LET raised == func_raises(resp)
               outcome == wrapper_outcome(config.max_retry_attempts,
                                          retry.attempt, raised)
               called == [retry EXCEPT !.history = Append(@, resp)]
           IN  retry' =
                   CASE outcome = "return" ->
                            [called EXCEPT !.pc = "returned"]
                     [] outcome = "raise" ->
                            [called EXCEPT !.pc = "raised", !.raised = raised]
                     [] outcome = "exhausted" ->
                            [called EXCEPT !.pc = "raised",
                                           !.attempt = @ + 1,
                                           !.raised = "LunalyticsRetryExhaustedError",
                                           !.cause = raised]
                     [] outcome = "sleep" ->
                            [called EXCEPT !.pc = "sleep",
                                           !.attempt = @ + 1,
                                           !.sleeps = @ + 1,
                                           !.wait_time =
                                               wait_time(retry.attempt + 1,
                                                         config.retry_backoff_factor,
                                                         config.retry_max_delay,
                                                         jitter)]
    /\ UNCHANGED <<config, resources, monitors, next_id, task, ev, probe>>

\* await asyncio.sleep(wait_time) returns and the loop goes round
wrapper_sleep ==
    /\ retry.pc = "sleep"
    /\ retry' = [retry EXCEPT !.pc = "call"]
    /\ UNCHANGED <<config, resources, monitors, next_id, task, ev, probe>>

RetryInit ==
    /\ \E n \in RetryAttemptChoices, b \in BackoffChoices :
           config = [ duplicate_handling |-> "annotation_priority",
                      max_retry_attempts |-> n,
                      retry_backoff_factor |-> b.backoff_factor,
                      retry_max_delay |-> b.max_delay,
                      monitor_defaults |-> builtin_monitor_defaults,
                      namespace_filter |-> builtin_namespace_filter ]
    /\ resources = ScenarioResources([ ing |-> Absent, svc |-> Absent, mon |-> Absent ])
    /\ monitors = EmptyDict
    /\ next_id = 0
    /\ task = [r \in Identities |-> IdleTask]
    /\ ev = [r \in Identities |-> NoEvent]
    /\ retry = [RetryOff EXCEPT !.pc = "call"]
    /\ probe = ProbeOff

RetryNext == wrapper_pass \/ wrapper_sleep

SpecRetry == RetryInit /\ [][RetryNext]_vars

-----------------------------------------------------------------------------
(* Properties *)

CreateOrUpdateEvent(e) == e.type = "create_or_update"

ExternalCalls(e) == e.gets + e.creates + e.updates + e.deletes

ResourceKindName(r) ==
    IF resources[r].kind = "ingress" THEN STR_Ingress ELSE STR_Service

\* the desired spec the create/update handler of r builds
DesiredConfig(r) ==
    IF resources[r].kind = "monitor"
    THEN monitor_crd_config(resources[r].spec)
    ELSE annotated_monitor_config(resources[r], resources[r].kind, ResourceKindName(r))

\* the enabled Ingress or Service a declares the URL of the Monitor CRD m, in
\* the namespace of m; the URL of a is its url annotation or derived from its spec
SameUrlDeclaration(a, m) ==
    /\ resources[a].kind \in {"ingress", "service"}
    /\ resources[a].present
    /\ is_monitoring_enabled(resources[a].annotations)
    /\ resources[m].kind = "monitor"
    /\ resources[m].present
    /\ resources[a].namespace = resources[m].namespace
    /\ Truthy(Get(resources[m].spec, "url", None))
    /\ annotated_url(resources[a], resources[a].kind) = resources[m].spec["url"]

\* this step delivers a create/update event to r
StartsCreateOrUpdate(r) ==
    /\ ev'[r].seq = ev[r].seq + 1
    /\ CreateOrUpdateEvent(ev'[r])

\* this step delivers an event to r
StartsEvent(r) == ev'[r].seq = ev[r].seq + 1

\* this step ends the handler of an event of r
Completes(r) ==
    /\ ev'[r].done
    /\ ev'[r].seq # ev[r].seq \/ ~ev[r].done

\* C1: a create/update event for a resource whose stored binding refers to a
\* monitor that exists externally (get-by-id finds it) issues one external
\* update and no external create, and leaves the stored monitor id as it was.
\* The desired spec is taken to be one the create payload accepts, so that the
\* binding can stem from an earlier pass of the same event.
C1_Idempotence ==
    \A r \in Identities :
        ( /\ CreateOrUpdateEvent(ev[r]) /\ ev[r].done
          /\ ev[r].get_result = "found"
          /\ MonitorCreate(DesiredConfig(r)) )
            => /\ Binding(r) = ev[r].old_id
               /\ ev[r].updates = 1
               /\ ev[r].creates = 0

C3_CreateOnlyOnNotFound ==
    \A r \in Identities :
        (CreateOrUpdateEvent(ev[r]) /\ Truthy(ev[r].old_id))
            => /\ ev[r].creates > 0 => ev[r].get_result = "not_found"
               /\ ev[r].get_result = "failed"
                      => (ev[r].creates = 0 /\ Binding(r) = ev[r].old_id)

\* C4: under annotation_priority, for an enabled Ingress and a Monitor CRD of
\* one namespace with equal desired URLs: no create/update event of the CRD
\* issues an external create or update, the CRD is in conflict after its
\* event, and the Ingress is bound after its event. The operator's list and
\* patch calls are taken to succeed, and the create of the Ingress too.
C4_DuplicatePrecedence ==
    \A i \in Identities, m \in Identities :
        ( /\ config.duplicate_handling = "annotation_priority"
          /\ resources[i].kind = "ingress"
          /\ SameUrlDeclaration(i, m) )
            => /\ (CreateOrUpdateEvent(ev[m]) /\ ev[m].arbitration # "list_failed")
                      => /\ ev[m].creates = 0
                         /\ ev[m].updates = 0
                         /\ (ev[m].done /\ ev[m].own_write_ok)
                                => Get(resources[m].status, "state", None) = "conflict"
               /\ ( /\ CreateOrUpdateEvent(ev[i]) /\ ev[i].done
                    /\ ev[i].created # None /\ ev[i].own_write_ok )
                      => Truthy(Binding(i))

\* C5: under annotation_priority, a create/update event of a Monitor CRD for
\* whose URL an enabled Ingress or Service of the namespace is a declaration
\* (by url annotation or derived from its spec) makes no external call and
\* writes status conflict. The operator's list calls are taken to succeed.
C5_SupersededCRDStops ==
    \A m \in Identities :
        ( /\ config.duplicate_handling = "annotation_priority"
          /\ CreateOrUpdateEvent(ev[m])
          /\ ev[m].arbitration # "list_failed"
          /\ Truthy(Get(resources[m].spec, "name", None))
          /\ \E a \in Identities : SameUrlDeclaration(a, m) )
            => /\ ExternalCalls(ev[m]) = 0
               /\ ev[m].done
                      => /\ ev[m].own_writes = 1
                         /\ ev[m].own_write_ok
                                => Get(resources[m].status, "state", None) = "conflict"

\* C6: a Monitor CRD that is in conflict while a same-URL declaration of an
\* enabled Ingress or Service exists stays in conflict through every later
\* create, update or resume event of the CRD, and such an event makes no
\* external call. The operator's list calls are taken to succeed.
C6_ConflictTerminal ==
    [][ \A m \in Identities :
          ( /\ config.duplicate_handling = "annotation_priority"
            /\ Get(resources[m].status, "state", None) = "conflict"
            /\ \E a \in Identities : SameUrlDeclaration(a, m)
            /\ StartsEvent(m)
            /\ ev'[m].type \in {"create_or_update", "resume"}
            /\ ev'[m].arbitration # "list_failed" )
              => /\ Get(resources'[m].status, "state", None) = "conflict"
                 /\ ExternalCalls(ev'[m]) = 0
                 /\ task'[m].pc = "idle" ]_vars

\* C7: the handler of one event invokes at most one mutating external
\* operation (create, update or delete); the re-sends of the retry loop belong
\* to the one invocation.
C7_OneMutatingCall ==
    \A r \in Identities :
        ev[r].creates + ev[r].updates + ev[r].deletes <= 1

\* an event has asked for the stored id, found it missing, and created once
C7_Witness ==
    \E r \in Identities :
        /\ ev[r].done
        /\ ev[r].gets = 1
        /\ ev[r].creates = 1
        /\ ev[r].created # None

FailsValidation(r) ==
    /\ resources[r].present
    /\ is_namespace_monitored(resources[r].namespace, EmptyDict)
    /\ IF resources[r].kind = "monitor"
       THEN \/ ~Truthy(Get(resources[r].spec, "name", None))
            \/ ~Truthy(Get(resources[r].spec, "url", None))
       ELSE /\ is_monitoring_enabled(resources[r].annotations)
            /\ Truthy(annotated_url(resources[r], resources[r].kind))
            /\ validate_monitor_config(DesiredConfig(r)) # <<>>

\* C9: a create/update event whose desired spec fails validation ends without
\* an external call, changes no binding and no other resource; for an Ingress
\* or a Service nothing is written, for a Monitor CRD the one write is a status
\* patch with state error.
C9_ValidationAborts ==
    [][ \A r \in Identities :
          (StartsCreateOrUpdate(r) /\ FailsValidation(r))
              => /\ ev'[r].done
                 /\ task'[r].pc = "idle"
                 /\ ExternalCalls(ev'[r]) = 0
                 /\ monitors' = monitors
                 /\ \A q \in Identities \ {r} : resources'[q] = resources[q]
                 /\ IF resources[r].kind = "monitor"
                    THEN /\ ev'[r].writes = 1
                         /\ ev'[r].own_writes = 1
                         /\ [resources'[r] EXCEPT !.status = EmptyDict]
                                = [resources[r] EXCEPT !.status = EmptyDict]
                         /\ Get(resources'[r].status, "monitorId", None)
                                = Get(resources[r].status, "monitorId", None)
                         /\ ev'[r].own_write_ok
                                => resources'[r].status["state"] = "error"
                         /\ ~ev'[r].own_write_ok
                                => resources'[r].status = resources[r].status
                    ELSE /\ ev'[r].writes = 0
                         /\ resources'[r] = resources[r] ]_vars

\* the event of an Ingress with an invalid interval has ended next to a
\* Monitor CRD of the same URL, which it has left alone
C9_Witness ==
    /\ CreateOrUpdateEvent(ev["ing"]) /\ ev["ing"].done
    /\ FailsValidation("ing")
    /\ SameUrlDeclaration("ing", "mon")
    /\ resources["mon"].status = EmptyDict

\* r is enabled, has a valid desired spec (validation passes and the create
\* payload accepts it), is not superseded and has no stored binding
Eligible(r) ==
    /\ resources[r].present
    /\ is_namespace_monitored(resources[r].namespace, EmptyDict)
    /\ ~Truthy(Binding(r))
    /\ IF resources[r].kind = "monitor"
       THEN /\ Truthy(Get(resources[r].spec, "name", None))
            /\ Truthy(Get(resources[r].spec, "url", None))
            /\ MonitorCreate(DesiredConfig(r))
            /\ ~ ( /\ config.duplicate_handling = "annotation_priority"
                   /\ \E a \in Identities : SameUrlDeclaration(a, r) )
       ELSE /\ is_monitoring_enabled(resources[r].annotations)
            /\ Truthy(annotated_url(resources[r], resources[r].kind))
            /\ validate_monitor_config(DesiredConfig(r)) = <<>>
            /\ MonitorCreate(DesiredConfig(r))

\* C10: a create/update event for an enabled, valid, non-superseded resource
\* without a stored binding invokes one external create and no get-by-id or
\* update; when the create succeeds the handler writes the returned id as the
\* binding, and the status state of a Monitor CRD is active.
C10_CreateWhenUnbound ==
    [][ \A r \in Identities :
          /\ (StartsCreateOrUpdate(r) /\ Eligible(r))
                 => /\ task'[r].pc = "call"
                    /\ task'[r].op = "add"
                    /\ ev'[r].creates = 1
          /\ (CreateOrUpdateEvent(ev'[r]) /\ ~Truthy(ev'[r].old_id))
                 => /\ ev'[r].creates <= 1
                    /\ ev'[r].gets = 0
                    /\ ev'[r].updates = 0
          /\ ( /\ Completes(r)
               /\ CreateOrUpdateEvent(ev'[r])
               /\ ~Truthy(ev'[r].old_id)
               /\ ev'[r].created # None )
                 => /\ ev'[r].own_writes = 1
                    /\ ev'[r].own_write_ok
                           => IF resources[r].kind = "monitor"
                              THEN /\ resources'[r].status["monitorId"] = ev'[r].created
                                   /\ resources'[r].status["state"] = "active"
                              ELSE resources'[r].annotations[ANNOTATION_MONITOR_ID]
                                       = ev'[r].created ]_vars

\* an unbound Ingress or Service and an unbound Monitor CRD have each been
\* bound to the monitor their event created
C10_Witness ==
    /\ \E a \in Identities :
           /\ resources[a].kind \in {"ingress", "service"}
           /\ CreateOrUpdateEvent(ev[a]) /\ ev[a].done
           /\ ~Truthy(ev[a].old_id)
           /\ ev[a].gets = 0 /\ ev[a].creates = 1
           /\ ev[a].created # None
           /\ Binding(a) = ev[a].created
    /\ \E m \in Identities :
           /\ resources[m].kind = "monitor"
           /\ CreateOrUpdateEvent(ev[m]) /\ ev[m].done
           /\ ~Truthy(ev[m].old_id)
           /\ ev[m].gets = 0 /\ ev[m].creates = 1
           /\ ev[m].created # None
           /\ Binding(m) = ev[m].created
           /\ Get(resources[m].status, "state", None) = "active"

\* C11: a delete event for a resource without a stored binding makes no
\* external call; a delete event for a bound resource invokes one external
\* delete, for the bound monitor id, and no get-by-id, create or update; the
\* event ends the same way, without a write, whether the delete is answered
\* with success or with not-found.
C11_DeleteOnce ==
    \A r \in Identities :
        ev[r].type = "delete"
            => /\ ev[r].gets = 0 /\ ev[r].creates = 0 /\ ev[r].updates = 0
               /\ ev[r].writes = 0
               /\ IF Truthy(ev[r].old_id)
                  THEN /\ ev[r].deletes = 1
                       /\ ~ev[r].done
                              => /\ task[r].op = "delete"
                                 /\ task[r].existing_monitor_id = ev[r].old_id
                                 /\ Binding(r) = ev[r].old_id
                  ELSE /\ ev[r].deletes = 0
                       /\ ev[r].done
               /\ ev[r].delete_result \in {"deleted", "not_found"}
                      => /\ ev[r].done
                         /\ ~resources[r].present
                         /\ ~MonitorExists(ev[r].old_id) \/ ev[r].delete_result = "not_found"

\* the delete of a bound resource was answered with not-found, and the event
\* has ended
C11_Witness ==
    \E r \in Identities :
        /\ ev[r].type = "delete" /\ ev[r].done
        /\ Truthy(ev[r].old_id)
        /\ ev[r].deletes = 1
        /\ ev[r].delete_result = "not_found"

\* C12: a resume event invokes no create, update or delete and leaves the
\* stored monitor id as it is; without a binding, or for an Ingress or Service
\* that is not enabled, it makes no call and writes nothing; otherwise it
\* invokes get-by-id once, and nothing else; an Ingress or Service is never
\* written to, and a Monitor CRD whose monitor is not found gets the status
\* state error, and no new monitor.
C12_ResumeReadsOnly ==
    [][ \A r \in Identities :
          ev'[r].type = "resume"
              => /\ ev'[r].creates = 0 /\ ev'[r].updates = 0 /\ ev'[r].deletes = 0
                 /\ Binding(r)' = ev'[r].old_id
                 /\ IF \/ ~Truthy(ev'[r].old_id)
                       \/ /\ resources[r].kind # "monitor"
                          /\ ~is_monitoring_enabled(resources[r].annotations)
                    THEN /\ ev'[r].gets = 0
                         /\ ev'[r].writes = 0
                         /\ ev'[r].done
                    ELSE ev'[r].gets = 1
                 /\ resources[r].kind # "monitor"
                        => (ev'[r].writes = 0 /\ resources'[r] = resources[r])
                 /\ ev'[r].writes = ev'[r].own_writes
                 /\ ev'[r].own_writes <= 1
                 /\ ( /\ Completes(r)
                      /\ resources[r].kind = "monitor"
                      /\ ev'[r].get_result = "not_found" )
                        => /\ ev'[r].own_writes = 1
                           /\ ev'[r].own_write_ok
                                  => resources'[r].status["state"] = "error"
                           /\ monitors' = monitors ]_vars

\* the resume event of a bound Monitor CRD has found its monitor missing and
\* has reported the error
C12_Witness ==
    \E r \in Identities :
        /\ resources[r].kind = "monitor"
        /\ ev[r].type = "resume" /\ ev[r].done
        /\ ev[r].gets = 1
        /\ ev[r].get_result = "not_found"
        /\ Binding(r) = ev[r].old_id
        /\ Get(resources[r].status, "state", None) = "error"

-----------------------------------------------------------------------------
(* The functions without side effects seen alone: the namespace filter of
   src/config.py and the URL derivation of src/utils/url_builder.py *)

\* rules of an Ingress spec, and ports of a Service spec, that are enumerated
MaxRules == 2
MaxPorts == 2

SeqsUpTo(S, n) == UNION { [1..k -> S] : k \in 0..n }

STR_prod == <<"p","r","o","d">>
STR_staging == <<"s","t","a","g","i","n","g">>
STR_v == <<"v">>

\* namespace_filter of the configuration: every strategy, lists with and
\* without the namespaces asked about, and filters that leave keys to the
\* defaults of is_namespace_monitored
FilterConfigs ==
    [ strategy : {"all", "list", "annotation", "label"},
      namespaces : { <<>>, <<STR_prod>>, <<STR_staging, STR_prod>> },
      annotation_key : {"k"},
      annotation_value : {STR_v} ]
    \cup { [ strategy |-> "annotation" ],
           [ strategy |-> "list" ],
           [ namespaces |-> <<STR_prod>> ] }

\* the annotations of a namespace: none, and with and without the key and value
NamespaceAnnotations ==
    { EmptyDict,
      "k" :> STR_v,
      "k" :> <<"w">>,
      "j" :> STR_v,
      ("j" :> <<"w">>) @@ ("k" :> STR_v),
      ANNOTATION_ENABLED :> STR_true,
      ANNOTATION_ENABLED :> <<"T","r","u","e">> }

FilterArguments ==
    [ namespace : {STR_prod, STR_staging, STR_ns},
      namespace_annotations : NamespaceAnnotations ]

\* the rules of an Ingress: with and without host, http block, paths and path
IngressRules ==
    { [ host |-> <<"a">>, http |-> [ paths |-> << [ path |-> <<"/","h">> ] >> ] ],
      [ host |-> <<"b">>, http |-> [ paths |-> << [ pathType |-> <<"P">> ] >> ] ],
      [ host |-> <<"a">>, http |-> [ paths |-> << [ path |-> <<"/","x">> ],
                                                  [ path |-> <<"/","y">> ] >> ] ],
      [ host |-> <<"a">>, http |-> [ paths |-> << [ path |-> <<>> ] >> ] ],
      [ host |-> <<"a">>, http |-> [ paths |-> <<>> ] ],
      [ host |-> <<"a">> ],
      [ host |-> <<>>, http |-> [ paths |-> << [ path |-> <<"/">> ] >> ] ],
      [ http |-> [ paths |-> << [ path |-> <<"/">> ] >> ] ] }

IngressTls == { <<>>, << [ hosts |-> << <<"a">> >> ] >> }

IngressSpecs ==
    { [ rules |-> rs] : rs \in SeqsUpTo(IngressRules, MaxRules) }
    \cup { [ rules |-> rs, tls |-> t ] :
               rs \in SeqsUpTo(IngressRules, MaxRules), t \in IngressTls }
    \cup { EmptyDict } \cup { [ tls |-> t ] : t \in IngressTls }

\* the ports of a Service as the API server admits them (port is required
\* and in 1..65535; name and protocol are optional)
ServicePorts ==
    { [ port |-> 80 ],
      [ port |-> 8080, name |-> <<"w","e","b">>, protocol |-> <<"T","C","P">> ],
      [ port |-> 443, name |-> <<"H","T","T","P","S">> ],
      [ port |-> 80, name |-> <<"m","y","-","s","s","l">> ],
      [ port |-> 80, name |-> <<"T","l","s","1">> ],
      [ port |-> 53, name |-> <<"d","n","s">>, protocol |-> <<"U","D","P">> ] }

ServiceSpecs ==
    { [ ports |-> ps ] : ps \in SeqsUpTo(ServicePorts, MaxPorts) } \cup { EmptyDict }

ServiceArguments ==
    [ service_spec : ServiceSpecs,
      service_name : { <<"a","p","i">>, <<"s">> },
      namespace : { STR_prod, STR_ns } ]

\* annotation maps: each recognized annotation absent, valid, or invalid
AnnotationChoices ==
    [ interval : { None, <<"6","0">>, <<"0">>, <<"x">> },
      retry_interval : { None, <<"5">> },
      request_timeout : { None, <<"1","0">> },
      method : { None, <<"g","e","t">>, <<"F","E","T","C","H">> },
      codes : { None, <<"2","0","0","-","2","9","9",","," ","4","0","4">>,
                <<"2","x","x">> } ]

AnnotationMap(c) ==
    (IF c.interval # None THEN ANNOTATION_INTERVAL :> c.interval ELSE EmptyDict)
    @@ (IF c.retry_interval # None
        THEN ANNOTATION_RETRY_INTERVAL :> c.retry_interval ELSE EmptyDict)
    @@ (IF c.request_timeout # None
        THEN ANNOTATION_REQUEST_TIMEOUT :> c.request_timeout ELSE EmptyDict)
    @@ (IF c.method # None THEN ANNOTATION_METHOD :> c.method ELSE EmptyDict)
    @@ (IF c.codes # None THEN ANNOTATION_VALID_STATUS_CODES :> c.codes ELSE EmptyDict)
    @@ Enabled

\* the configuration file: without and with a monitor_defaults block
FileConfigs ==
    { EmptyDict,
      [ monitor_defaults |->
            [ type |-> STR_http, method |-> <<"P","O","S","T">>, interval |-> 60,
              retry_interval |-> 10, request_timeout |-> 5,
              valid_status_codes |-> << <<"2","0","0">> >> ] ] }

\* the MONITOR_DEFAULT_<KEY> variables of the environment: none set, and
\* valid values for some of them
Environs ==
    { EmptyDict,
      [ interval |-> <<"6","0">> ],
      [ method |-> <<"H","E","A","D">>,
        valid_status_codes |-> <<"2","0","0",",","3","0","1">> ] }

\* the create/update handler from the extraction to the validation:
\* get_monitor_config_from_annotations, name and url set, merge_with_defaults,
\* validate_monitor_config
apply_validate_monitor_config ==
    /\ probe.fn = "validate_monitor_config" /\ probe.pc = "args"
    /\ probe' = [probe EXCEPT
                    !.pc = "done",
                    !.result = validate_monitor_config(
                                   merge_with_defaults(
                                       ("name" :> probe.args.name)
                                       @@ ("url" :> probe.args.url)
                                       @@ get_monitor_config_from_annotations(
                                              AnnotationMap(probe.args.choice))))]
    /\ UNCHANGED <<config, resources, monitors, next_id, task, ev, retry>>

\* config.is_namespace_monitored(namespace, namespace_annotations)
apply_is_namespace_monitored ==
    /\ probe.fn = "is_namespace_monitored" /\ probe.pc = "args"
    /\ probe' = [probe EXCEPT
                    !.pc = "done",
                    !.result = is_namespace_monitored(probe.args.namespace,
                                                      probe.args.namespace_annotations)]
    /\ UNCHANGED <<config, resources, monitors, next_id, task, ev, retry>>

\* build_ingress_url(ingress_spec, namespace)
apply_build_ingress_url ==
    /\ probe.fn = "build_ingress_url" /\ probe.pc = "args"
    /\ probe' = [probe EXCEPT !.pc = "done",
                              !.result = build_ingress_url(probe.args.ingress_spec)]
    /\ UNCHANGED <<config, resources, monitors, next_id, task, ev, retry>>

\* build_service_url(service_spec, service_name, namespace)
apply_build_service_url ==
    /\ probe.fn = "build_service_url" /\ probe.pc = "args"
    /\ probe' = [probe EXCEPT
                    !.pc = "done",
                    !.result = build_service_url(probe.args.service_spec,
                                                 probe.args.service_name,
                                                 probe.args.namespace)]
    /\ UNCHANGED <<config, resources, monitors, next_id, task, ev, retry>>

PureInit ==
    /\ resources = ScenarioResources([ ing |-> Absent, svc |-> Absent, mon |-> Absent ])
    /\ monitors = EmptyDict
    /\ next_id = 0
    /\ task = [r \in Identities |-> IdleTask]
    /\ ev = [r \in Identities |-> NoEvent]
    /\ retry = RetryOff
    /\ \/ /\ \E nf \in FilterConfigs :
                 config = [ duplicate_handling |-> "annotation_priority",
                            max_retry_attempts |-> ScenarioMaxAttempts,
                            monitor_defaults |-> builtin_monitor_defaults,
                            namespace_filter |-> nf ]
          /\ \E a \in FilterArguments :
                 probe = [ fn |-> "is_namespace_monitored", pc |-> "args",
                           args |-> a, result |-> FALSE ]
       \/ /\ \E f \in FileConfigs, environ \in Environs :
                 config = [ duplicate_handling |-> "annotation_priority",
                            max_retry_attempts |-> ScenarioMaxAttempts,
                            monitor_defaults |-> monitor_defaults(f, environ),
                            namespace_filter |-> builtin_namespace_filter,
                            file |-> f, environ |-> environ ]
          /\ \E c \in AnnotationChoices :
                 probe = [ fn |-> "validate_monitor_config", pc |-> "args",
                           args |-> [ choice |-> c, name |-> <<"I","n","g","r","e","s","s","/","w">>,
                                      url |-> URL_A ],
                           result |-> <<>> ]
       \/ /\ config = [ duplicate_handling |-> "annotation_priority",
                        max_retry_attempts |-> ScenarioMaxAttempts,
                        monitor_defaults |-> builtin_monitor_defaults,
                        namespace_filter |-> builtin_namespace_filter ]
          /\ \/ \E i \in IngressSpecs :
                    probe = [ fn |-> "build_ingress_url", pc |-> "args",
                              args |-> [ ingress_spec |-> i ], result |-> None ]
             \/ \E a \in ServiceArguments :
                    probe = [ fn |-> "build_service_url", pc |-> "args",
                              args |-> a, result |-> None ]

PureNext ==
    \/ apply_validate_monitor_config
    \/ apply_is_namespace_monitored
    \/ apply_build_ingress_url
    \/ apply_build_service_url

SpecPure == PureInit /\ [][PureNext]_vars

-----------------------------------------------------------------------------
(* The retry loop *)

\* the failures the retry engine is to treat as transient: timeout,
\* connection failure, abrupt stream termination, 5xx and rate-limit
ClassifiedRetryable(resp) ==
    \/ resp.transport \in {"TimeoutException", "ConnectError", "RemoteProtocolError"}
    \/ resp.transport = "none"
       /\ (resp.status = 429 \/ (500 <= resp.status /\ resp.status <= 599))

\* the failures that are structural: 401, 404, 422 and any other non-2xx
\* status that is neither 429 nor 5xx
Structural(resp) ==
    /\ resp.transport = "none"
    /\ ~(200 <= resp.status /\ resp.status <= 299)
    /\ ~ClassifiedRetryable(resp)

\* the failure a structural response is reported as
StructuralFailure(resp) ==
    CASE resp.status = 401 -> "LunalyticsAuthenticationError"
      [] resp.status = 404 -> "LunalyticsNotFoundError"
      [] resp.status = 422 -> "LunalyticsValidationError"
      [] OTHER -> "LunalyticsAPIError"

Invocations == Len(retry.history)

LastResponse == retry.history[Len(retry.history)]

EveryAttemptRetryable ==
    \A i \in 1..Len(retry.history) : ClassifiedRetryable(retry.history[i])

\* C13: with max_attempts N >= 1 the wrapped operation is never invoked more
\* than N times and retry-exhausted is raised only after the N-th invocation;
\* while every attempt so far has failed with a classified-retryable failure,
\* the loop is still running before the N-th invocation, and after the N-th
\* it has raised the terminal retry-exhausted failure carrying the last error.
C13_BoundedRetry ==
    LET N == config.max_retry_attempts
    IN  (retry.pc # "off" /\ N >= 1) =>
            /\ Invocations <= N
            /\ retry.raised = "LunalyticsRetryExhaustedError" =>
                   /\ Invocations = N
                   /\ EveryAttemptRetryable
            /\ EveryAttemptRetryable =>
                   /\ Invocations < N =>
                          /\ retry.pc \in {"call", "sleep"}
                          /\ retry.raised = "none"
                          /\ retry.sleeps = Invocations
                   /\ Invocations = N =>
                          /\ retry.pc = "raised"
                          /\ retry.raised = "LunalyticsRetryExhaustedError"
                          /\ retry.cause = func_raises(LastResponse)
                          /\ retry.sleeps = N - 1

C13_Witness ==
    /\ config.max_retry_attempts = 3
    /\ Invocations = 3
    /\ EveryAttemptRetryable
    /\ retry.pc = "raised"
    /\ retry.raised = "LunalyticsRetryExhaustedError"
    /\ retry.sleeps = 2

\* the scheduling of the retry loop: the HTTP request of an attempt ends (the
\* client sets a request timeout), and the event loop resumes the coroutine
\* when the timer of asyncio.sleep fires
SpecRetryFair ==
    SpecRetry /\ WF_vars(wrapper_pass) /\ WF_vars(wrapper_sleep)

C15_StructuralOnce ==
    (retry.pc = "raised" /\ Invocations >= 1 /\ Structural(LastResponse)) =>
        /\ Invocations = 1
        /\ retry.sleeps = 0
        /\ retry.raised = StructuralFailure(LastResponse)

\* C15 amended: an attempt that fails with a structural failure is the last
\* one: the loop raises that failure itself (never retry-exhausted) without a
\* wait after it, so a structural failure of the first attempt means exactly
\* one invocation and no wait; every wait follows an attempt that failed with
\* 5xx, 429, timeout, connect or protocol failure, so the invocations before
\* a structural failure are exactly the transient failures that preceded it.
C15_StructuralNotRetried_Amended ==
    retry.pc # "off" =>
        /\ (Invocations >= 1 /\ Structural(LastResponse)) =>
               /\ retry.pc = "raised"
               /\ retry.raised = StructuralFailure(LastResponse)
               /\ retry.sleeps = Invocations - 1
        /\ \A i \in 1..(Invocations - 1) : ClassifiedRetryable(retry.history[i])
        /\ retry.pc = "sleep" => ClassifiedRetryable(LastResponse)
        /\ retry.sleeps <= Invocations

C15_Witness ==
    /\ Invocations = 2
    /\ ClassifiedRetryable(retry.history[1])
    /\ retry.history[2] = [transport |-> "none", status |-> 401]
    /\ retry.pc = "raised"
    /\ retry.raised = "LunalyticsAuthenticationError"
    /\ retry.sleeps = 1

-----------------------------------------------------------------------------
(* The namespace filter *)

\* C16: is_namespace_monitored returns true for every input under strategy
\* all (the strategy when none is configured); under strategy list exactly
\* when the namespace is in the configured list; under strategy annotation
\* exactly when the namespace annotations supplied contain the configured key
\* with the configured value (no or empty annotations give false); and false
\* under any other strategy.
C16_NamespaceFilter ==
    (probe.fn = "is_namespace_monitored" /\ probe.pc = "done") =>
        LET nf == config.namespace_filter
            strategy == IF "strategy" \in DOMAIN nf THEN nf.strategy ELSE "all"
            listed == IF "namespaces" \in DOMAIN nf THEN nf.namespaces ELSE <<>>
            key == IF "annotation_key" \in DOMAIN nf THEN nf.annotation_key
                   ELSE "lunalytics.io/enabled"
            value == IF "annotation_value" \in DOMAIN nf THEN nf.annotation_value
                     ELSE <<"t","r","u","e">>
            given == probe.args.namespace_annotations
        IN  probe.result =
                CASE strategy = "all" -> TRUE
                  [] strategy = "list" ->
                         probe.args.namespace \in { listed[i] : i \in DOMAIN listed }
                  [] strategy = "annotation" ->
                         \E a \in DOMAIN given : a = key /\ given[a] = value
                  [] OTHER -> FALSE

C16_Witness ==
    /\ probe.fn = "is_namespace_monitored" /\ probe.pc = "done"
    /\ {"strategy", "annotation_key"} \subseteq DOMAIN config.namespace_filter
    /\ config.namespace_filter.strategy = "annotation"
    /\ probe.args.namespace_annotations = (("j" :> <<"w">>) @@ ("k" :> STR_v))
    /\ probe.result = TRUE

\* C17: for an event of any type on a resource in a namespace that the filter
\* rejects, no external call is issued and no binding-store write is performed.
C17_FilterFirst ==
    \A r \in Identities :
        (ev[r].type # "none"
             /\ ~is_namespace_monitored(resources[r].namespace, EmptyDict)) =>
            /\ ExternalCalls(ev[r]) = 0
            /\ ev[r].writes = 0

-----------------------------------------------------------------------------
(* URL derivation *)

\* C18: for an Ingress spec with at least one rule, a host on the first rule
\* and at least one HTTP path on it, the derived URL is protocol://host path of
\* the first rule's host and its first path ("/" when that path entry gives
\* none), with https exactly when the spec has a non-empty TLS block and http
\* otherwise; when rules, host or paths are absent the result is none.
C18_IngressUrl ==
    (probe.fn = "build_ingress_url" /\ probe.pc = "done") =>
        LET sp == probe.args.ingress_spec
            has_rule == "rules" \in DOMAIN sp /\ Len(sp.rules) >= 1
            first == sp.rules[1]
            has_host == "host" \in DOMAIN first /\ Len(first.host) >= 1
            has_path == /\ "http" \in DOMAIN first
                        /\ "paths" \in DOMAIN first.http
                        /\ Len(first.http.paths) >= 1
            entry == first.http.paths[1]
            tls_block == "tls" \in DOMAIN sp /\ Len(sp.tls) >= 1
        IN  IF has_rule /\ has_host /\ has_path
            THEN probe.result =
                     (IF tls_block THEN <<"h","t","t","p","s">> ELSE <<"h","t","t","p">>)
                     \o <<":","/","/">> \o first.host
                     \o (IF "path" \in DOMAIN entry THEN entry.path ELSE <<"/">>)
            ELSE probe.result = None

C18_Witness ==
    /\ probe.fn = "build_ingress_url" /\ probe.pc = "done"
    /\ "rules" \in DOMAIN probe.args.ingress_spec
    /\ Len(probe.args.ingress_spec.rules) = 2
    /\ "tls" \in DOMAIN probe.args.ingress_spec
    /\ Len(probe.args.ingress_spec.tls) = 1
    /\ probe.result = <<"h","t","t","p","s",":","/","/","b","/">>

\* the decimal text of the port numbers enumerated
PortText(n) ==
    CASE n = 80 -> <<"8","0">>
      [] n = 8080 -> <<"8","0","8","0">>
      [] n = 443 -> <<"4","4","3">>
      [] n = 53 -> <<"5","3">>

\* a port name that contains https, ssl or tls in any letter case
NameHintsHttps(name) ==
    \E i \in 1..Len(name), hint \in { <<"h","t","t","p","s">>, <<"s","s","l">>,
                                       <<"t","l","s">> } :
        /\ i + Len(hint) - 1 <= Len(name)
        /\ \A j \in 1..Len(hint) :
               \/ name[i + j - 1] = hint[j]
               \/ name[i + j - 1] = upper(<<hint[j]>>)[1]

\* C19: for a Service spec with at least one port the derived URL is
\* protocol://service.namespace.svc.cluster.local:port/ of the first port,
\* with https exactly when the name of that port contains https, ssl or tls
\* in any letter case and http otherwise, whatever the later ports are.
C19_ServiceUrl ==
    (/\ probe.fn = "build_service_url" /\ probe.pc = "done"
     /\ "ports" \in DOMAIN probe.args.service_spec
     /\ Len(probe.args.service_spec.ports) >= 1) =>
        LET first == probe.args.service_spec.ports[1]
            hinted == "name" \in DOMAIN first /\ NameHintsHttps(first.name)
        IN  probe.result =
                (IF hinted THEN <<"h","t","t","p","s">> ELSE <<"h","t","t","p">>)
                \o <<":","/","/">> \o probe.args.service_name \o <<".">>
                \o probe.args.namespace
                \o <<".","s","v","c",".","c","l","u","s","t","e","r",".",
                      "l","o","c","a","l",":">>
                \o PortText(first.port) \o <<"/">>

C19_Witness ==
    /\ probe.fn = "build_service_url" /\ probe.pc = "done"
    /\ "ports" \in DOMAIN probe.args.service_spec
    /\ Len(probe.args.service_spec.ports) = 2
    /\ probe.args.service_spec.ports[1] = [ port |-> 80 ]
    /\ "name" \in DOMAIN probe.args.service_spec.ports[2]
    /\ probe.args.service_spec.ports[2].name = <<"H","T","T","P","S">>
    /\ probe.args.service_name = <<"a","p","i">>
    /\ probe.args.namespace = STR_prod
    /\ probe.result = <<"h","t","t","p",":","/","/","a","p","i",".","p","r","o","d",
                        ".","s","v","c",".","c","l","u","s","t","e","r",".",
                        "l","o","c","a","l",":","8","0","/">>

-----------------------------------------------------------------------------
(* Concurrency of the units of work *)

\* a delete or resume event of identity b is delivered: its handler starts
DeleteOrResumeStarts(b) ==
    \/ handle_ingress_delete(b) \/ handle_ingress_resume(b)
    \/ handle_service_delete(b) \/ handle_service_resume(b)
    \/ handle_monitor_delete(b) \/ handle_monitor_resume(b)

\* C20: while the unit of work of one identity is in the inter-attempt wait of
\* the retry loop, every other identity is free to go on: when it is present
\* and idle (and an event is left to deliver) its events are deliverable (the
\* guard of its create/update, delete and resume handlers holds) and its
\* delete or resume handler can start; its pending external call can be
\* answered, the answer to its create, update or delete call can complete
\* its handler, and its own wait can end; and none of these steps of the
\* other identity touches the waiting unit of work.
C20_WaitSuspendsOnlyWaiter ==
    \A a \in Identities : \A b \in Identities \ {a} :
        task[a].pc = "wait" =>
            /\ (resources[b].present /\ task[b].pc = "idle"
                    /\ Delivered < MaxEvents) =>
                   /\ Deliverable(b, resources[b].kind)
                   /\ ENABLED (DeleteOrResumeStarts(b) /\ task'[a] = task[a])
            /\ task[b].pc = "call" =>
                   ENABLED (async_retry_wrapper(b) /\ task'[a] = task[a])
            /\ (task[b].pc = "call" /\ task[b].op \in {"add", "edit", "delete"}) =>
                   ENABLED (async_retry_wrapper(b) /\ ev'[b].done
                               /\ task'[a] = task[a])
            /\ task[b].pc = "wait" =>
                   ENABLED (asyncio_sleep(b) /\ task'[a] = task[a])

\* one unit of work waits between attempts while the handler of another
\* identity is in flight, its external call pending
C20_Witness ==
    \E a \in Identities : \E b \in Identities \ {a} :
        /\ task[a].pc = "wait"
        /\ task[b].pc = "call"
        /\ ~ev[b].done
        /\ ev[a].seq = 1 /\ ev[b].seq = 1
        /\ resources[a].present /\ resources[b].present

-----------------------------------------------------------------------------
(* Ownership of the stored state *)

\* C21: the stored state of a resource (its annotations with the monitor id,
\* or its CRD status) changes only in a step of the unit of work that handles
\* an event of that same resource.
C21_OwnerWritesOnly ==
    [][\A r \in Identities :
           (\/ resources'[r].annotations # resources[r].annotations
            \/ resources'[r].status # resources[r].status) =>
               (ev'[r] # ev[r] /\ ev'[r].type # "none")]_vars

-----------------------------------------------------------------------------
(* Extraction, defaulting and validation *)

\* each recognized annotation that is present has a valid value
ChoiceValid(c) ==
    /\ c.interval \in { None, <<"6","0">> }
    /\ c.retry_interval \in { None, <<"5">> }
    /\ c.request_timeout \in { None, <<"1","0">> }
    /\ c.method \in { None, <<"g","e","t">> }
    /\ c.codes \in { None, <<"2","0","0","-","2","9","9",","," ","4","0","4">> }

\* C22: for an annotation map whose recognized values are each valid, with
\* name and url supplied and with the configured defaults (built-in, or set
\* valid in the file or in the environment), validation of the extracted and
\* defaulted configuration returns no error.
C22_ValidSpecPasses ==
    (probe.fn = "validate_monitor_config" /\ probe.pc = "done"
         /\ ChoiceValid(probe.args.choice)) =>
        probe.result = <<>>

-----------------------------------------------------------------------------
(* The cap of the retry loop *)

\* the failure a classified-retryable response is reported as
RetryableFailure(resp) ==
    IF resp.transport # "none" THEN resp.transport
    ELSE IF resp.status = 429 THEN "LunalyticsRateLimitError"
    ELSE "LunalyticsServerError"

\* C23 as stated: for every max_attempts n >= 0 the wrapped operation is never
\* invoked more than n times, and a retry-exhausted failure carries the last
\* underlying error.
C23_CapNeverExceeded ==
    LET n == config.max_retry_attempts
    IN  (retry.pc # "off" /\ n >= 0) =>
            /\ Invocations <= n
            /\ retry.raised = "LunalyticsRetryExhaustedError" =>
                   retry.cause = RetryableFailure(LastResponse)

\* C23 amended: for every max_attempts n >= 1 the wrapped operation is never
\* invoked more than n times; with max_attempts 0 it is invoked once (the
\* first attempt is made before the cap is looked at) and never more; in both
\* cases retry-exhausted is raised only by the attempt that reaches the cap,
\* after a classified-retryable failure, and carries that failure.
C23_CapNeverExceeded_Amended ==
    LET n == config.max_retry_attempts
        cap == IF n = 0 THEN 1 ELSE n
    IN  (retry.pc # "off" /\ n >= 0) =>
            /\ Invocations <= cap
            /\ (n = 0 /\ retry.pc # "call") => Invocations = 1
            /\ retry.raised = "LunalyticsRetryExhaustedError" =>
                   /\ Invocations = cap
                   /\ ClassifiedRetryable(LastResponse)
                   /\ retry.cause = RetryableFailure(LastResponse)

C23_Witness ==
    /\ config.max_retry_attempts = 0
    /\ Invocations = 1
    /\ retry.sleeps = 0
    /\ retry.raised = "LunalyticsRetryExhaustedError"
    /\ retry.cause = "LunalyticsRateLimitError"

-----------------------------------------------------------------------------
(* The backoff schedule (waits in thousandths of a time unit) *)

\* C24 as stated: the wait after the first failed attempt is exactly 1 time
\* unit; the wait before attempt n, n >= 3, lies between 0.5 and 1.0 times
\* min(backoff_factor^(n-1), max_delay).
C24_BackoffSchedule ==
    retry.pc = "sleep" =>
        LET n == Invocations + 1
            base == Min(Pow(config.retry_backoff_factor, n - 1), config.retry_max_delay)
        IN  IF n = 2 THEN retry.wait_time = 1000
            ELSE 500 * base <= retry.wait_time /\ retry.wait_time <= 1000 * base

\* C24 amended: the wait after the first failed attempt is exactly 1 time
\* unit; the wait before attempt n, n >= 3, lies between 0.5 and 1.0 times
\* min(backoff_factor^(n-2), max_delay): the exponent is one less than the
\* number of attempts that have failed.
C24_BackoffSchedule_Amended ==
    retry.pc = "sleep" =>
        LET n == Invocations + 1
            base == Min(Pow(config.retry_backoff_factor, n - 2), config.retry_max_delay)
        IN  IF n = 2 THEN retry.wait_time = 1000
            ELSE 500 * base <= retry.wait_time /\ retry.wait_time <= 1000 * base

C24_Witness ==
    /\ retry.pc = "sleep"
    /\ Invocations = 3
    /\ config.retry_backoff_factor = 3
    /\ config.retry_max_delay = 5
    /\ retry.wait_time = 3750


\* C25: when a unit of work is cancelled inside a retry wait, the wait is
\* abandoned (the coroutine neither sleeps on nor calls again), the step
\* changes no stored state, and from then on the event issues no further
\* external call and no write: its counters stay as the last completed step
\* left them.
C25_CancelInWait ==
    [][\A r \in Identities :
          /\ (task[r].pc = "wait" /\ task'[r].pc \notin {"wait", "call"})
                => /\ task'[r].pc = "cancelled"
                   /\ resources' = resources
                   /\ monitors' = monitors
                   /\ ev'[r] = ev[r]
          /\ task[r].pc = "cancelled"
                => /\ task'[r] = task[r]
                   /\ ev'[r] = ev[r]
                   /\ ExternalCalls(ev'[r]) = ExternalCalls(ev[r])
                   /\ ev'[r].writes = ev[r].writes]_vars

\* a Monitor CRD create/update event cancelled in the wait after a failed
\* create, while the status of the CRD is still unwritten
C25_Witness ==
    /\ task["mon"].pc = "cancelled"
    /\ task["mon"].handler = "create_or_update"
    /\ ev["mon"].creates = 1
    /\ ev["mon"].writes = 0
    /\ ~ev["mon"].done
    /\ "state" \notin DOMAIN resources["mon"].status


\* the exception of one answer to a request of a client method
Raised(resp) ==
    IF resp.transport # "none" THEN resp.transport ELSE _handle_response(resp.status)

\* this step is the answer resp to the pending request of r
Answered(r, resp, applied, api_ok) ==
    /\ task[r].pc = "call"
    /\ BackendAllows(task[r].op, task[r].existing_monitor_id, resp, applied)
    /\ LET returned_id == IF task[r].op = "add" THEN MonitorIdStr(next_id + 1)
                          ELSE task[r].existing_monitor_id
           step == RetryPass(r, task[r], ev[r], Raised(resp), returned_id, api_ok)
       IN  /\ resources' = step.resources
           /\ task'[r] = step.task
           /\ ev'[r] = step.ev

\* this step is the answer resp to the external create of a create/update
\* event of r
AddAnswered(r, resp, applied, api_ok) ==
    /\ task[r].op = "add"
    /\ task[r].handler = "create_or_update"
    /\ Answered(r, resp, applied, api_ok)

\* C26: in a Monitor CRD create/update event a classified-retryable failure of
\* the external create is surfaced as status error only by the attempt that
\* reaches max_attempts: an earlier failed attempt leads to the retry wait and
\* writes nothing. An attempt that succeeds issues the status patch with state
\* active (stored unless the patch itself fails), and writes no status error.
C26_ErrorOnlyAfterExhaustion ==
    [][\A r \in Identities :
        (resources[r].kind = "monitor" /\ task[r].pc = "call" /\ task[r].op = "add"
            /\ task'[r] # task[r])
        => \A resp \in Responses, applied \in BOOLEAN, api_ok \in BOOLEAN :
          AddAnswered(r, resp, applied, api_ok)
            => /\ ClassifiedRetryable(resp)
                    => /\ ev'[r].own_writes > ev[r].own_writes
                            => task[r].attempt + 1 = config.max_retry_attempts
                       /\ task[r].attempt + 1 < config.max_retry_attempts
                            => /\ task'[r].pc = "wait"
                               /\ resources' = resources
                       /\ task[r].attempt + 1 = config.max_retry_attempts
                            => /\ ev'[r].done
                               /\ ev'[r].own_writes = ev[r].own_writes + 1
                               /\ ev'[r].own_write_ok
                                    => resources'[r].status["state"] = "error"
               /\ Raised(resp) = "none"
                    => /\ ev'[r].done
                       /\ ev'[r].own_writes = ev[r].own_writes + 1
                       /\ ev'[r].own_write_ok
                            => resources'[r].status["state"] = "active"
                       /\ resources'[r].status # resources[r].status
                            => resources'[r].status["state"] = "active"]_vars

\* the external create of a Monitor CRD event has failed once with a retryable
\* failure: the event waits for its second attempt, and no status is written
C26_Witness ==
    /\ task["mon"].pc = "wait"
    /\ task["mon"].op = "add"
    /\ task["mon"].handler = "create_or_update"
    /\ task["mon"].attempt = 1
    /\ task["mon"].attempt < config.max_retry_attempts
    /\ ev["mon"].own_writes = 0
    /\ "state" \notin DOMAIN resources["mon"].status


\* C27: when the external create or update of a create/update event ends in
\* failure (a structural failure, or the retryable failure that exhausts the
\* attempts), the event ends with the stored monitor id it started with; for a
\* Monitor CRD the event issues one status patch, which (unless the patch
\* itself fails) sets state error and leaves status.monitorId as it was. An
\* update whose payload is rejected before it is sent (the event ends with the
\* answer "found" to get-by-id) is such a failure.
C27_FailureKeepsBinding ==
    [][\A r \in Identities :
        (task[r].pc = "call" /\ task[r].handler = "create_or_update" /\ ev'[r].done)
        => \A resp \in Responses, applied \in BOOLEAN, api_ok \in BOOLEAN :
             ( /\ Answered(r, resp, applied, api_ok)
               /\ IF task[r].op = "get" THEN Raised(resp) = "none"
                  ELSE Raised(resp) # "none" )
               => /\ resources'[r].annotations = resources[r].annotations
                  /\ Get(resources'[r].status, "monitorId", None)
                        = Get(resources[r].status, "monitorId", None)
                  /\ ev'[r].created = None
                  /\ resources[r].kind = "monitor"
                       => /\ ev'[r].own_writes = ev[r].own_writes + 1
                          /\ ev'[r].own_write_ok
                               => resources'[r].status["state"] = "error"
                  /\ resources[r].kind # "monitor"
                       => resources' = resources]_vars

\* a Monitor CRD bound to a monitor that has vanished: its create/update event
\* found the id missing, the create failed, and the status is error with the
\* old monitorId still stored
C27_Witness ==
    /\ ev["mon"].done
    /\ CreateOrUpdateEvent(ev["mon"])
    /\ ev["mon"].creates = 1
    /\ ev["mon"].created = None
    /\ Truthy(ev["mon"].old_id)
    /\ ev["mon"].own_write_ok
    /\ resources["mon"].status["state"] = "error"
    /\ Get(resources["mon"].status, "monitorId", None) = ev["mon"].old_id


\* the create/update event of r that this step belongs to is the next one
\* after a failed binding write
AfterFailedWrite(r) ==
    IF StartsEvent(r) THEN FailedBindingWrite(r) ELSE task[r].after_failed_write

\* the stored binding of r after this step
BindingAfter(r) ==
    IF resources'[r].kind = "monitor"
    THEN Get(resources'[r].status, "monitorId", None)
    ELSE get_monitor_id_from_annotations(resources'[r].annotations)

\* C28 as stated: after an external create whose patch of the binding failed,
\* no compensating delete is issued, and the next create/update event of the
\* resource leaves it bound to an external monitor that exists.
C28_SelfHealing ==
    [][\A r \in Identities :
          /\ FailedBindingWrite(r)'
                => ev'[r].deletes = 0
          /\ (Completes(r) /\ CreateOrUpdateEvent(ev'[r]) /\ AfterFailedWrite(r))
                => /\ Truthy(BindingAfter(r))
                   /\ \E n \in DOMAIN monitors' : MonitorIdStr(n) = BindingAfter(r)]_vars

\* C28, amended: after an external create whose patch of the binding failed,
\* no compensating delete is issued and the stored id is not the created one.
\* The next create/update event of the resource does not look for the monitor
\* that was created: it sends no delete, and at most one further create. When
\* that create and the patch of its id succeed, the resource is bound to the
\* newly created monitor, which exists; when the event issues no create, or
\* the create or the patch fails, the stored id stays as the event found it.
C28_SelfHealing_Amended ==
    [][\A r \in Identities :
          /\ FailedBindingWrite(r)'
                => /\ ev'[r].deletes = 0
                   /\ BindingAfter(r) # ev'[r].created
          /\ (Completes(r) /\ CreateOrUpdateEvent(ev'[r]) /\ AfterFailedWrite(r))
                => /\ ev'[r].deletes = 0
                   /\ ev'[r].creates <= 1
                   /\ IF ev'[r].created # None /\ ev'[r].own_write_ok
                      THEN /\ BindingAfter(r) = ev'[r].created
                           /\ \E n \in DOMAIN monitors' :
                                  /\ MonitorIdStr(n) = BindingAfter(r)
                                  /\ n \notin DOMAIN monitors
                      ELSE BindingAfter(r) = ev'[r].old_id]_vars

\* an Ingress whose last create/update event created monitor 1 and failed to
\* patch its id: no delete was sent, monitor 1 is held by the external system,
\* the Ingress is unbound, and its next event has sent a second create
C28_Witness ==
    /\ task["ing"].after_failed_write
    /\ task["ing"].pc = "call"
    /\ task["ing"].op = "add"
    /\ CreateOrUpdateEvent(ev["ing"])
    /\ ev["ing"].old_id = None
    /\ ev["ing"].gets = 0
    /\ ev["ing"].creates = 1
    /\ ev["ing"].deletes = 0
    /\ Binding("ing") = None
    /\ DOMAIN monitors = {1}
    /\ monitors[1] = "ing"


\* C29: a Monitor CRD whose desired spec is invalid (the name and url are
\* given, but the create payload rejects the spec) ends its create/update
\* event in status error, not conflict, even when an enabled Ingress or
\* Service of the namespace declares the same URL: the status the event
\* writes has state error.
C29_ValidationBeforeArbitration ==
    [][\A r \in Identities :
          ( /\ resources[r].kind = "monitor"
            /\ Completes(r)
            /\ CreateOrUpdateEvent(ev'[r])
            /\ Truthy(Get(resources[r].spec, "name", None))
            /\ Truthy(Get(resources[r].spec, "url", None))
            /\ ~MonitorCreate(DesiredConfig(r))
            /\ \E a \in Identities : SameUrlDeclaration(a, r)
            /\ ev'[r].own_write_ok )
            => resources'[r].status["state"] = "error"]_vars


\* the enablement annotation is present and reads "true" in some letter case
EnablementTrue(annotations) ==
    /\ ANNOTATION_ENABLED \in DOMAIN annotations
    /\ Len(annotations[ANNOTATION_ENABLED]) = 4
    /\ annotations[ANNOTATION_ENABLED][1] \in {"t", "T"}
    /\ annotations[ANNOTATION_ENABLED][2] \in {"r", "R"}
    /\ annotations[ANNOTATION_ENABLED][3] \in {"u", "U"}
    /\ annotations[ANNOTATION_ENABLED][4] \in {"e", "E"}

\* C30: a create/update event for an Ingress or Service whose enablement
\* annotation is absent, or is not "true" in some letter case, ends at once:
\* it issues no external call, no arbitration (no list call and no conflict
\* patch), no annotation patch, and changes no stored state. A Monitor CRD
\* carries no enablement annotation, and its create/update event, when the
\* CRD is valid, unbound and not superseded, sends its external create.
C30_EnablementGate ==
    [][\A r \in Identities :
          /\ ( /\ StartsCreateOrUpdate(r)
               /\ resources[r].kind \in {"ingress", "service"}
               /\ ~EnablementTrue(resources[r].annotations) )
                => /\ ev'[r].done
                   /\ ExternalCalls(ev'[r]) = 0
                   /\ ev'[r].arbitration = "none"
                   /\ ev'[r].writes = 0
                   /\ resources' = resources
                   /\ monitors' = monitors
          /\ ( /\ StartsCreateOrUpdate(r)
               /\ resources[r].kind = "monitor"
               /\ ~EnablementTrue(resources[r].annotations)
               /\ Eligible(r) )
                => /\ task'[r].pc = "call"
                   /\ task'[r].op = "add"
                   /\ ev'[r].creates = 1]_vars

\* a create/update event of the Service whose enablement annotation is "yes"
\* has ended without a call or a write
C30_Witness ==
    /\ CreateOrUpdateEvent(ev["svc"])
    /\ ev["svc"].done
    /\ resources["svc"].present
    /\ ANNOTATION_ENABLED \in DOMAIN resources["svc"].annotations
    /\ ~EnablementTrue(resources["svc"].annotations)
    /\ ExternalCalls(ev["svc"]) = 0
    /\ ev["svc"].arbitration = "none"
    /\ ev["svc"].writes = 0


\* the URL derived from the spec of the Ingress or Service r
DerivedUrl(r) ==
    IF resources[r].kind = "ingress" THEN build_ingress_url(resources[r].spec)
    ELSE build_service_url(resources[r].spec, resources[r].name, resources[r].namespace)

\* a create/update event starts for the enabled Ingress or Service r, in a
\* namespace the filter accepts
StartsEnabledAnnotated(r) ==
    /\ StartsCreateOrUpdate(r)
    /\ resources[r].kind \in {"ingress", "service"}
    /\ EnablementTrue(resources[r].annotations)
    /\ is_namespace_monitored(resources[r].namespace, EmptyDict)

\* the event of r ends in its first step without any effect
Skipped(r) ==
    /\ ev'[r].done
    /\ task'[r].pc = "idle"
    /\ ExternalCalls(ev'[r]) = 0
    /\ ev'[r].arbitration = "none"
    /\ ev'[r].writes = 0
    /\ resources' = resources

\* C31 as stated: without a url annotation, when the derivation yields none
\* the create/update event is skipped (no external call, no arbitration, no
\* write); with a url annotation present, the event goes on only with that
\* annotation's value as its URL.
C31_UrlDerivation ==
    [][\A r \in Identities :
          StartsEnabledAnnotated(r)
            => /\ (ANNOTATION_URL \notin DOMAIN resources[r].annotations
                     /\ DerivedUrl(r) = None)
                    => Skipped(r)
               /\ (ANNOTATION_URL \in DOMAIN resources[r].annotations
                     /\ task'[r].pc = "call")
                    => task'[r].monitor_config["url"]
                         = resources[r].annotations[ANNOTATION_URL]]_vars

\* C31, amended: a url annotation that is the empty string counts as absent.
\* Without a non-empty url annotation, when the derivation yields none the
\* event is skipped, and when it yields a URL the event goes on with the
\* derived URL; with a non-empty url annotation the event goes on only with
\* the annotation's value, whatever the spec would yield.
C31_UrlDerivation_Amended ==
    [][\A r \in Identities :
          StartsEnabledAnnotated(r)
            => LET explicit == Get(resources[r].annotations, ANNOTATION_URL, None)
               IN  /\ (~Truthy(explicit) /\ DerivedUrl(r) = None)
                        => Skipped(r)
                   /\ (~Truthy(explicit) /\ task'[r].pc = "call")
                        => task'[r].monitor_config["url"] = DerivedUrl(r)
                   /\ (Truthy(explicit) /\ task'[r].pc = "call")
                        => task'[r].monitor_config["url"] = explicit]_vars

\* the create/update events of the enabled Ingress without rules and of the
\* enabled Service without ports have both been skipped
C31_Witness ==
    /\ CreateOrUpdateEvent(ev["ing"])
    /\ ev["ing"].done
    /\ resources["ing"].present
    /\ EnablementTrue(resources["ing"].annotations)
    /\ ANNOTATION_URL \notin DOMAIN resources["ing"].annotations
    /\ DerivedUrl("ing") = None
    /\ ExternalCalls(ev["ing"]) = 0
    /\ ev["ing"].writes = 0
    /\ CreateOrUpdateEvent(ev["svc"])
    /\ ev["svc"].done
    /\ DerivedUrl("svc") = None
    /\ ExternalCalls(ev["svc"]) = 0


\* the partial spec extracted from the annotations of the validation probe
ProbeExtracted == get_monitor_config_from_annotations(AnnotationMap(probe.args.choice))

\* C32: an interval annotation that does not parse as an integer ("x") is
\* dropped: the extracted partial spec has no interval, the merged desired
\* spec carries the configured default interval, and (the other annotations
\* being valid) validation returns no error, so that the reconciliation
\* proceeds.
C32_UnparsableDropped ==
    ( /\ probe.fn = "validate_monitor_config"
      /\ probe.pc = "done"
      /\ probe.args.choice.interval = <<"x">>
      /\ ChoiceValid([probe.args.choice EXCEPT !.interval = None]) )
      => /\ "interval" \notin DOMAIN ProbeExtracted
         /\ merge_with_defaults(ProbeExtracted)["interval"]
               = config.monitor_defaults["interval"]
         /\ probe.result = <<>>


\* C33: every status a step writes to a Monitor CRD has state active, error or
\* conflict; a status with state active is written by an event of the CRD
\* itself that has made an external call, and carries as monitorId the id
\* that call returned: the id of the monitor the event created, or else the
\* stored id that get-by-id or the update answered for. (The external system
\* returns non-empty ids.)
C33_StatusStates ==
    [][\A r \in Identities :
          (resources[r].kind = "monitor" /\ resources'[r].status # resources[r].status)
            => /\ "state" \in DOMAIN resources'[r].status
               /\ resources'[r].status["state"] \in {"active", "error", "conflict"}
               /\ resources'[r].status["state"] = "active"
                    => /\ ev'[r].own_writes = ev[r].own_writes + 1
                       /\ ev'[r].own_write_ok
                       /\ ExternalCalls(ev'[r]) >= 1
                       /\ "monitorId" \in DOMAIN resources'[r].status
                       /\ resources'[r].status["monitorId"]
                            = IF ev'[r].created # None THEN ev'[r].created
                              ELSE ev'[r].old_id
                       /\ Truthy(resources'[r].status["monitorId"])]_vars

\* the create/update event of a Monitor CRD has created a monitor and written
\* state active with the returned id
C33_Witness ==
    /\ CreateOrUpdateEvent(ev["mon"])
    /\ ev["mon"].done
    /\ ev["mon"].created # None
    /\ ev["mon"].own_write_ok
    /\ resources["mon"].status["state"] = "active"
    /\ resources["mon"].status["monitorId"] = ev["mon"].created


\* the monitors the external system holds that were created for identity r
CreatedFor(r) == { n \in DOMAIN monitors : monitors[n] = r }

\* C34: at every point, for each resource identity, the external system holds
\* at most one monitor created on its behalf.
C34_NoOrphanedDuplicate ==
    \A r \in Identities : Cardinality(CreatedFor(r)) <= 1


\* C35: every spec carried by an external create request satisfies the
\* constraints of the create payload; and a create/update event of an enabled
\* Ingress or Service whose desired spec passes validate_monitor_config but
\* violates one of the constraints issues no external call and performs no
\* binding-store write.
C35_CreatePayloadConstraints ==
    [][\A r \in Identities :
          /\ (task'[r].pc = "call" /\ task'[r].op = "add"
                 /\ ev'[r].creates = ev[r].creates + 1)
                => MonitorCreate(task'[r].monitor_config)
          /\ ( /\ StartsEnabledAnnotated(r)
               /\ Truthy(annotated_url(resources[r], resources[r].kind))
               /\ validate_monitor_config(DesiredConfig(r)) = <<>>
               /\ ~MonitorCreate(DesiredConfig(r)) )
                => /\ ev'[r].done
                   /\ ExternalCalls(ev'[r]) = 0
                   /\ ev'[r].writes = 0]_vars


\* C36: no handler lets a failure reach the event-delivery layer. A handler
\* that starts either awaits its first request or has ended normally; every
\* answer to a request, a failure included, leads only to the next request,
\* to the retry wait or to the normal end of the handler; and a delete handler
\* that has ended, whatever the external delete answered, leaves the resource
\* deleted.
C36_NoPropagation ==
    [][\A r \in Identities :
          /\ StartsEvent(r)
                => \/ task'[r].pc = "call"
                   \/ ev'[r].done /\ task'[r].pc = "idle"
          /\ (task[r].pc \in {"call", "wait"} /\ task'[r] # task[r])
                => \/ task'[r].pc \in {"call", "wait"}
                   \/ ev'[r].done /\ task'[r].pc = "idle"
          /\ (Completes(r) /\ ev'[r].type = "delete")
                => ~resources'[r].present]_vars

\* the external delete of a delete event has failed, and the resource is gone
C36_Witness ==
    \E r \in Identities :
        /\ ev[r].type = "delete"
        /\ ev[r].done
        /\ ev[r].deletes = 1
        /\ ev[r].delete_result = "failed"
        /\ ~resources[r].present
        /\ task[r].pc = "idle"


\* the strategy of the namespace filter of the configuration
FilterStrategy == Get(config.namespace_filter, "strategy", "all")

\* C37: under namespace filter strategy annotation, a create/update event of
\* an Ingress, a Service or a Monitor CRD issues no external call, arbitrates
\* nothing and writes no binding, whatever annotations the namespace of the
\* resource carries.
C37_AnnotationStrategyRejectsAll ==
    [][\A r \in Identities :
          (StartsCreateOrUpdate(r) /\ FilterStrategy = "annotation")
              => Skipped(r)]_vars

\* under strategy annotation, in a namespace that carries the annotation the
\* filter asks for, the enabled Ingress and the Monitor CRD have each had a
\* create/update event, both without a call or a write
C37_Witness ==
    /\ FilterStrategy = "annotation"
    /\ EnablementTrue(resources["ing"].annotations)
    /\ \A r \in {"ing", "mon"} :
          /\ resources[r].present
          /\ config.namespace_filter.annotation_key
                 \in DOMAIN resources[r].namespace_annotations
          /\ resources[r].namespace_annotations[config.namespace_filter.annotation_key]
                 = config.namespace_filter.annotation_value
          /\ CreateOrUpdateEvent(ev[r])
          /\ ev[r].done
          /\ ExternalCalls(ev[r]) = 0
          /\ ev[r].writes = 0
          /\ Binding(r) = None


\* r is an Ingress or a Service with a binding whose enablement annotation is
\* not "true" in any case
BoundNotEnabled(r) ==
    /\ resources[r].kind \in {"ingress", "service"}
    /\ Binding(r) # None
    /\ ~EnablementTrue(resources[r].annotations)

\* C38: a create/update event of a bound Ingress or Service whose enablement
\* annotation is no longer "true" issues no external call and leaves the
\* binding and the external monitors as they are; a delete event of such a
\* resource, also one that follows such an update, requests the external
\* delete of the bound id.
C38_DisabledKeepsMonitor ==
    [][\A r \in Identities :
          /\ (StartsCreateOrUpdate(r) /\ BoundNotEnabled(r)
                  /\ is_namespace_monitored(resources[r].namespace, EmptyDict))
                => /\ Skipped(r)
                   /\ monitors' = monitors
          /\ (StartsEvent(r) /\ ev'[r].type = "delete" /\ BoundNotEnabled(r))
                => /\ task'[r].pc = "call"
                   /\ task'[r].op = "delete"
                   /\ task'[r].existing_monitor_id = Binding(r)
                   /\ ev'[r].deletes = 1]_vars

\* the bound Service whose enablement annotation is "false" has been deleted
\* in its second event, and the external delete has removed monitor 1
C38_Witness ==
    /\ Get(resources["svc"].annotations, ANNOTATION_ENABLED, None)
           = <<"f","a","l","s","e">>
    /\ ev["svc"].seq = 2
    /\ ev["svc"].type = "delete"
    /\ ev["svc"].done
    /\ ev["svc"].old_id = MonitorIdStr(1)
    /\ ev["svc"].deletes = 1
    /\ ev["svc"].delete_result = "deleted"
    /\ 1 \notin DOMAIN monitors
    /\ ~resources["svc"].present


\* this step starts the create/update handler of the Ingress or Service r,
\* and its list call fails
AnnotatedListFailed(r) ==
    /\ resources[r].kind \in {"ingress", "service"}
    /\ ev'[r].arbitration = "list_failed"

\* this step starts the create/update handler of the Monitor CRD r, and these
\* outcomes of its list calls give the result of its duplicate check
MonitorListed(r, ingress_list, service_list) ==
    /\ resources[r].kind = "monitor"
    /\ ev'[r].arbitration =
         IF _check_duplicate_annotations(Get(resources[r].spec, "url", None),
                                         resources[r].namespace,
                                         ingress_list, service_list) # "none"
         THEN "duplicate"
         ELSE IF ingress_list # "ok" \/ service_list # "ok" THEN "list_failed"
         ELSE "clear"

\* the Monitor CRD r lists the Services: the Ingress list has not ended the
\* check (no Ingress found, no exception other than an ApiException)
ServicesListed(r, ingress_list) ==
    /\ ingress_list # "Exception"
    /\ ~(ingress_list = "ok"
          /\ AnnotationDuplicate("ingress", Get(resources[r].spec, "url", None),
                                 resources[r].namespace))

\* a list call the duplicate check of the Monitor CRD r has made has failed
ListingFailed(r, ingress_list, service_list) ==
    \/ ingress_list # "ok"
    \/ ServicesListed(r, ingress_list) /\ service_list # "ok"

\* the handler of r has found no conflict and awaits its external call
ProceedsToCall(r) ==
    /\ ev'[r].arbitration = "list_failed"
    /\ \A q \in Identities :
          Get(resources'[q].status, "state", None) = Get(resources[q].status, "state", None)
    /\ task'[r].pc = "call"
    /\ task'[r].op = IF Truthy(Binding(r)) THEN "get" ELSE "add"

\* the create-or-update decision of r leads to an external call: r is bound,
\* or its payload is accepted
DecisionCalls(r) == Truthy(Binding(r)) \/ MonitorCreate(DesiredConfig(r))

\* C39 as stated: when a list call of the duplicate check fails, the check
\* reports no conflict and the event goes on to its external call as it does
\* when there is no duplicate.
C39_ArbitrationFailsOpen ==
    [][\A r \in Identities :
          (StartsCreateOrUpdate(r) /\ ev'[r].arbitration # "none" /\ DecisionCalls(r))
            => /\ AnnotatedListFailed(r) => ProceedsToCall(r)
               /\ \A ingress_list \in ListResults, service_list \in ListResults :
                     (/\ MonitorListed(r, ingress_list, service_list)
                      /\ ListingFailed(r, ingress_list, service_list))
                       => ProceedsToCall(r)]_vars

\* the Service list of the Monitor CRD r is made, succeeds and holds an
\* enabled Service with the URL of r
ServiceDuplicateSeen(r, ingress_list, service_list) ==
    /\ ServicesListed(r, ingress_list)
    /\ service_list = "ok"
    /\ AnnotationDuplicate("service", Get(resources[r].spec, "url", None),
                           resources[r].namespace)

\* C39, amended: a list call that fails contributes no duplicate. An Ingress
\* or Service event whose list call fails patches no Monitor CRD and goes on
\* to the create-or-update decision: to its external call when it is bound or
\* its payload is accepted, else to the except clause. A Monitor CRD event
\* whose Ingress list fails with an ApiException still ends in conflict when
\* the Service list succeeds and holds a duplicate; in every other case of a
\* failed list call it goes on to the create-or-update decision likewise.
C39_ArbitrationFailsOpen_Amended ==
    [][\A r \in Identities :
          (StartsCreateOrUpdate(r) /\ ev'[r].arbitration # "none")
            => /\ AnnotatedListFailed(r)
                       => /\ ev'[r].writes = 0
                          /\ resources' = resources
                          /\ DecisionCalls(r) => ProceedsToCall(r)
               /\ \A ingress_list \in ListResults, service_list \in ListResults :
                     (/\ MonitorListed(r, ingress_list, service_list)
                      /\ ListingFailed(r, ingress_list, service_list))
                       => IF ServiceDuplicateSeen(r, ingress_list, service_list)
                          THEN /\ ev'[r].arbitration = "duplicate"
                               /\ ev'[r].done
                               /\ ExternalCalls(ev'[r]) = 0
                          ELSE /\ ev'[r].arbitration = "list_failed"
                               /\ DecisionCalls(r) => ProceedsToCall(r)]_vars

\* a Monitor CRD whose URL an enabled Ingress declares as well has gone past
\* a failed list call to its external create
C39_Witness ==
    /\ resources["mon"].present
    /\ AnnotationDuplicate("ingress", Get(resources["mon"].spec, "url", None),
                           resources["mon"].namespace)
    /\ CreateOrUpdateEvent(ev["mon"])
    /\ ev["mon"].arbitration = "list_failed"
    /\ ev["mon"].creates = 1
    /\ "state" \notin DOMAIN resources["mon"].status


\* the first n invocations of the wrapped operation have all failed with a
\* classified-retryable failure
FirstRetryable(n) ==
    \A i \in 1..n : ClassifiedRetryable(retry.history[i])

\* k failures do not use up the attempts
WithinAttempts(k) ==
    config.max_retry_attempts = -1 \/ k < config.max_retry_attempts

\* C40: when the wrapped operation has failed k times with classified-
\* retryable failures, with k < max_attempts or max_attempts = -1, the engine
\* has raised nothing and goes on to invocation k + 1; when that invocation
\* succeeds, the engine has returned after exactly k + 1 invocations and k
\* waits, and has raised nothing.
C40_SuccessAfterRetries ==
    retry.pc # "off" =>
        /\ (FirstRetryable(Invocations) /\ WithinAttempts(Invocations))
              => /\ retry.raised = "none"
                 /\ retry.pc \in {"call", "sleep"}
        /\ (/\ Invocations >= 1
            /\ FirstRetryable(Invocations - 1)
            /\ WithinAttempts(Invocations - 1)
            /\ func_raises(LastResponse) = "none")
              => /\ retry.pc = "returned"
                 /\ retry.raised = "none"
                 /\ retry.cause = "none"
                 /\ retry.sleeps = Invocations - 1
                 /\ retry.attempt = Invocations - 1

\* with max_attempts 3, the operation has failed twice with a retryable
\* failure and has succeeded the third time
C40_Witness ==
    /\ config.max_retry_attempts = 3
    /\ Invocations = 3
    /\ FirstRetryable(2)
    /\ func_raises(LastResponse) = "none"
    /\ retry.pc = "returned"
    /\ retry.raised = "none"
    /\ retry.sleeps = 2

====
